---- MODULE Spec2Model ----
(***************************************************************************)
(* A model of the YNAB CSV import pipeline (lib/ynabParser) and of the     *)
(* import dialog that reconciles parsed accounts with existing accounts    *)
(* (YNABImportDialog).                                                     *)
(*                                                                         *)
(* Strings are sequences of one-character strings, so that trimming,       *)
(* lower-casing, substring search and the tokenizer work on characters.    *)
(* A missing array element or an unset optional field (JavaScript's        *)
(* undefined) is a value no string can be equal to.                        *)
(***************************************************************************)
EXTENDS Integers, Sequences, FiniteSets, TLC

VARIABLES
    parsedAccounts,     \* dialog prop: YNABParsedAccount[]
    existingAccounts,   \* dialog prop: Account[]
    defaultCurrency,    \* dialog prop
    mappings,           \* dialog state: AccountMapping[]
    csvText,            \* parseYNABCSV argument
    parseOutcome,       \* what parseYNABCSV returned or threw
    headers,            \* detectYNABFormat argument
    detected,           \* what detectYNABFormat returned
    call,               \* a call of another function of ynabParser: its
                        \* name and arguments
    returned,           \* what that call returned
    open,               \* dialog prop: the dialog is shown
    imported,           \* the argument of the last onImport call that the
                        \* parent has not yet answered with a render
    state,              \* useUndoRedo: state
    past,               \* useUndoRedo: past
    future,             \* useUndoRedo: future
    maxHistory,         \* useUndoRedo: options.maxHistory
    initialState        \* useUndoRedo: the initialState argument

vars == << parsedAccounts, existingAccounts, defaultCurrency, mappings,
           csvText, parseOutcome, headers, detected, call, returned,
           open, imported, state, past, future, maxHistory, initialState >>

dialogVars == << parsedAccounts, existingAccounts, defaultCurrency, mappings >>
parseVars == << csvText, parseOutcome >>
detectVars == << headers, detected >>
callVars == << call, returned >>
mountVars == << open, imported >>
undoVars == << state, past, future, maxHistory, initialState >>

(***************************************************************************)
(* Bounds of the model.                                                    *)
(***************************************************************************)
MaxParsed == 1      \* parsed accounts handed to the dialog
MaxExisting == 2    \* existing accounts handed to the dialog
MaxDataRows == 2    \* data rows after the header row of a document
MaxHeaders == 5     \* cells of a header row given to detectYNABFormat
MaxReportRows == 3  \* data rows of a report given to an aggregator
MaxFieldLen == 3    \* characters of a field content given to parseCSV in quotes
MaxTextLen == 4     \* characters of a text given to parseCSV as it is
MaxAmountLen == 6   \* characters of an amount of digits and separators
MaxSymbolsLen == 3  \* characters of an amount with symbols and letters
MaxNameLen == 3     \* characters of a name given to stringSimilarity
MaxPast == 3        \* entries of the past stack of useUndoRedo
MaxMaxHistory == 2  \* greatest maxHistory option, besides the default

(***************************************************************************)
(* JavaScript values.                                                      *)
(***************************************************************************)
\* undefined, where a string is expected (a cell beyond the end of a row)
UndefinedStr == << "<undefined>" >>
\* undefined, where an id is expected
UndefinedId == "<undefined>"
\* an optional field that is not set / that is set to v
Absent == << >>
Present(v) == << v >>
IsSet(opt) == Len(opt) = 1
TheValue(opt) == opt[1]

Range(f) == { f[x] : x \in DOMAIN f }

Min(a, b) == IF a <= b THEN a ELSE b
Max(a, b) == IF a >= b THEN a ELSE b

(***************************************************************************)
(* String primitives: String.prototype.toLowerCase, trim, includes.        *)
(***************************************************************************)
WhiteSpace == { " ", "\t", "\n", "\r" }

UpperToLower ==
    ("A" :> "a") @@ ("B" :> "b") @@ ("C" :> "c") @@ ("D" :> "d") @@ ("E" :> "e") @@
    ("F" :> "f") @@ ("G" :> "g") @@ ("H" :> "h") @@ ("I" :> "i") @@ ("J" :> "j") @@
    ("K" :> "k") @@ ("L" :> "l") @@ ("M" :> "m") @@ ("N" :> "n") @@ ("O" :> "o") @@
    ("P" :> "p") @@ ("Q" :> "q") @@ ("R" :> "r") @@ ("S" :> "s") @@ ("T" :> "t") @@
    ("U" :> "u") @@ ("V" :> "v") @@ ("W" :> "w") @@ ("X" :> "x") @@ ("Y" :> "y") @@
    ("Z" :> "z")

\* UTF-16 code units, for the comparison of strings with < and >.  The
\* currency signs are the one-character strings <pound>, <euro>, <peso>.
CharCode ==
    ("\t" :> 9) @@ ("\n" :> 10) @@ ("\r" :> 13) @@ (" " :> 32) @@ ("!" :> 33) @@
    ("\"" :> 34) @@ ("#" :> 35) @@ ("$" :> 36) @@ ("%" :> 37) @@ ("&" :> 38) @@
    ("'" :> 39) @@ ("(" :> 40) @@ (")" :> 41) @@ ("*" :> 42) @@ ("+" :> 43) @@
    ("," :> 44) @@ ("-" :> 45) @@ ("." :> 46) @@ ("/" :> 47) @@ ("0" :> 48) @@
    ("1" :> 49) @@ ("2" :> 50) @@ ("3" :> 51) @@ ("4" :> 52) @@ ("5" :> 53) @@
    ("6" :> 54) @@ ("7" :> 55) @@ ("8" :> 56) @@ ("9" :> 57) @@ (":" :> 58) @@
    (";" :> 59) @@ ("<" :> 60) @@ ("=" :> 61) @@ (">" :> 62) @@ ("?" :> 63) @@
    ("@" :> 64) @@ ("A" :> 65) @@ ("B" :> 66) @@ ("C" :> 67) @@ ("D" :> 68) @@
    ("E" :> 69) @@ ("F" :> 70) @@ ("G" :> 71) @@ ("H" :> 72) @@ ("I" :> 73) @@
    ("J" :> 74) @@ ("K" :> 75) @@ ("L" :> 76) @@ ("M" :> 77) @@ ("N" :> 78) @@
    ("O" :> 79) @@ ("P" :> 80) @@ ("Q" :> 81) @@ ("R" :> 82) @@ ("S" :> 83) @@
    ("T" :> 84) @@ ("U" :> 85) @@ ("V" :> 86) @@ ("W" :> 87) @@ ("X" :> 88) @@
    ("Y" :> 89) @@ ("Z" :> 90) @@ ("[" :> 91) @@ ("]" :> 93) @@
    ("^" :> 94) @@ ("_" :> 95) @@ ("a" :> 97) @@ ("b" :> 98) @@
    ("c" :> 99) @@ ("d" :> 100) @@ ("e" :> 101) @@ ("f" :> 102) @@ ("g" :> 103) @@
    ("h" :> 104) @@ ("i" :> 105) @@ ("j" :> 106) @@ ("k" :> 107) @@ ("l" :> 108) @@
    ("m" :> 109) @@ ("n" :> 110) @@ ("o" :> 111) @@ ("p" :> 112) @@ ("q" :> 113) @@
    ("r" :> 114) @@ ("s" :> 115) @@ ("t" :> 116) @@ ("u" :> 117) @@ ("v" :> 118) @@
    ("w" :> 119) @@ ("x" :> 120) @@ ("y" :> 121) @@ ("z" :> 122) @@ ("{" :> 123) @@
    ("|" :> 124) @@ ("}" :> 125) @@ ("~" :> 126) @@ ("<pound>" :> 163) @@ ("<euro>" :> 8364) @@
    ("<peso>" :> 8369)

ToLowerChar(c) == IF c \in DOMAIN UpperToLower THEN UpperToLower[c] ELSE c

ToLowerCase(s) == [i \in 1..Len(s) |-> ToLowerChar(s[i])]

RECURSIVE TrimStart(_)
TrimStart(s) ==
    IF s # << >> /\ Head(s) \in WhiteSpace THEN TrimStart(Tail(s)) ELSE s

RECURSIVE TrimEnd(_)
TrimEnd(s) ==
    IF s # << >> /\ s[Len(s)] \in WhiteSpace
    THEN TrimEnd(SubSeq(s, 1, Len(s) - 1))
    ELSE s

Trim(s) == TrimEnd(TrimStart(s))

\* s.includes(t)
Includes(s, t) ==
    \E k \in 0..(Len(s) - Len(t)) : SubSeq(s, k + 1, k + Len(t)) = t

(***************************************************************************)
(* stringSimilarity.  The result is kept as the exact fraction num/den.    *)
(***************************************************************************)
Frac(n, d) == [num |-> n, den |-> d]
FracGeq(x, y) == x.num * y.den >= y.num * x.den
FracGt(x, y) == x.num * y.den > y.num * x.den
FracEq(x, y) == x.num * y.den = y.num * x.den

\* One row of the edit-distance matrix: matrix[i][0..Len(a)] from matrix[i-1].
RECURSIVE LevRow(_, _, _, _, _)
LevRow(prevRow, bChar, a, j, acc) ==
    \* prevRow and acc are indexed from 1 for column 0
    IF j > Len(a) THEN acc
    ELSE LET cell == IF bChar = a[j]
                     THEN prevRow[j]
                     ELSE Min(Min(prevRow[j] + 1, acc[j] + 1), prevRow[j + 1] + 1)
             row == Append(acc, cell)
         IN  IF Len(row) = j + 1 THEN LevRow(prevRow, bChar, a, j + 1, row) ELSE row

RECURSIVE LevRows(_, _, _, _)
LevRows(prevRow, a, b, i) ==
    IF i > Len(b) THEN prevRow
    ELSE LET row == LevRow(prevRow, b[i], a, 1, << i >>)
         IN  IF Len(row) = Len(a) + 1 THEN LevRows(row, a, b, i + 1) ELSE row

Levenshtein(a, b) ==
    LevRows([j \in 1..(Len(a) + 1) |-> j - 1], a, b, 1)[Len(a) + 1]

\* stringSimilarity with the edit distance divided by the length of a
stringSimilarity_ByFirstLength(a, b) ==
    LET aLower == Trim(ToLowerCase(a))
        bLower == Trim(ToLowerCase(b))
        shorter == Min(Len(aLower), Len(bLower))
        longer == Max(Len(aLower), Len(bLower))
    IN  IF aLower = bLower THEN Frac(1, 1)
        ELSE IF Len(aLower) = 0 \/ Len(bLower) = 0 THEN Frac(0, 1)
        ELSE IF Includes(aLower, bLower) \/ Includes(bLower, aLower)
             THEN Frac(7 * longer + 3 * shorter, 10 * longer)
        ELSE Frac(Len(aLower) - Min(Len(aLower), Levenshtein(aLower, bLower)),
                  Len(aLower))

\* stringSimilarity without the test for an empty name
stringSimilarity_NoEmptyRule(a, b) ==
    LET aLower == Trim(ToLowerCase(a))
        bLower == Trim(ToLowerCase(b))
        shorter == Min(Len(aLower), Len(bLower))
        longer == Max(Len(aLower), Len(bLower))
    IN  IF aLower = bLower THEN Frac(1, 1)
        ELSE IF Includes(aLower, bLower) \/ Includes(bLower, aLower)
             THEN Frac(7 * longer + 3 * shorter, 10 * longer)
        ELSE Frac(longer - Levenshtein(aLower, bLower), longer)

stringSimilarity(a, b) ==
    LET aLower == Trim(ToLowerCase(a))
        bLower == Trim(ToLowerCase(b))
        shorter == Min(Len(aLower), Len(bLower))
        longer == Max(Len(aLower), Len(bLower))
    IN  IF aLower = bLower THEN Frac(1, 1)
        ELSE IF Len(aLower) = 0 \/ Len(bLower) = 0 THEN Frac(0, 1)
        ELSE IF Includes(aLower, bLower) \/ Includes(bLower, aLower)
             THEN Frac(7 * longer + 3 * shorter, 10 * longer)
        ELSE Frac(longer - Levenshtein(aLower, bLower), longer)

FUZZY_THRESHOLD == Frac(6, 10)

(***************************************************************************)
(* Domains of the finance types the dialog offers for editing.             *)
(***************************************************************************)
AccountCategory ==
    { "current_asset", "non_current_asset",
      "current_liability", "non_current_liability" }
AccessType == { "liquid", "retirement", "illiquid" }
Currency == { "EUR", "USD", "GBP", "PHP" }

\* The sentinel value of the "Create as new account" item of the selector.
NewSentinel == "new"

(***************************************************************************)
(* YNABImportDialog: initialMappings.                                      *)
(***************************************************************************)
NormalizedName(name) == Trim(ToLowerCase(name))

\* Mutation: the last account with the name instead of the first.
ExactMatchIndex_Last(ynabAccount, existing) ==
    LET hits == { k \in 1..Len(existing) :
                    Trim(ToLowerCase(existing[k].name))
                        = Trim(ToLowerCase(ynabAccount.name)) }
    IN  IF hits = { } THEN 0
        ELSE CHOOSE k \in hits : \A j \in hits : k >= j

\* existingAccounts.find(acc => normalized names are equal): the index of
\* the first such account, 0 when find returns undefined.
ExactMatchIndex(ynabAccount, existing) ==
    LET hits == { k \in 1..Len(existing) :
                    NormalizedName(existing[k].name)
                        = NormalizedName(ynabAccount.name) }
    IN  IF hits = { } THEN 0
        ELSE CHOOSE k \in hits : \A j \in hits : k <= j

\* Array.prototype.sort((a, b) => b.similarity - a.similarity): a stable
\* sort, so an element goes after every element that is not smaller.
RECURSIVE InsertBySimilarity(_, _)
InsertBySimilarity(sorted, m) ==
    IF sorted = << >> THEN << m >>
    ELSE IF FracGt(m.similarity, Head(sorted).similarity)
         THEN << m >> \o sorted
         ELSE << Head(sorted) >> \o InsertBySimilarity(Tail(sorted), m)

RECURSIVE SortBySimilarity(_, _)
SortBySimilarity(list, sorted) ==
    IF list = << >> THEN sorted
    ELSE SortBySimilarity(Tail(list), InsertBySimilarity(sorted, Head(list)))

\* Mutation: a score must exceed the threshold.
AboveThreshold_Strict(m) == FracGt(m.similarity, FUZZY_THRESHOLD)

AboveThreshold(m) == FracGeq(m.similarity, FUZZY_THRESHOLD)

FuzzyMatchesOf(ynabAccount, existing) ==
    LET scored == [k \in 1..Len(existing) |->
                     [account |-> existing[k],
                      similarity |->
                          stringSimilarity(ynabAccount.name, existing[k].name)]]
    IN  SortBySimilarity(SelectSeq(scored, AboveThreshold), << >>)

InitialMapping(ynabAccount, existing, defCurrency) ==
    LET exactIdx == ExactMatchIndex(ynabAccount, existing)
        fuzzyMatches == FuzzyMatchesOf(ynabAccount, existing)
    IN  IF exactIdx # 0
        THEN [ynabAccount |-> ynabAccount,
              matchType |-> "exact",
              matchedAccount |-> Present(existing[exactIdx]),
              fuzzyMatches |-> Absent,
              selectedMatchId |-> existing[exactIdx].id,
              include |-> TRUE,
              category |-> existing[exactIdx].category,
              accessType |-> existing[exactIdx].accessType,
              currency |-> existing[exactIdx].currency]
        ELSE IF Len(fuzzyMatches) > 0
        THEN [ynabAccount |-> ynabAccount,
              matchType |-> "fuzzy",
              matchedAccount |-> Absent,
              fuzzyMatches |-> Present(fuzzyMatches),
              selectedMatchId |-> UndefinedId,
              include |-> TRUE,
              category |-> ynabAccount.suggestedCategory,
              accessType |-> ynabAccount.suggestedAccessType,
              currency |-> defCurrency]
        ELSE [ynabAccount |-> ynabAccount,
              matchType |-> "new",
              matchedAccount |-> Absent,
              fuzzyMatches |-> Absent,
              selectedMatchId |-> UndefinedId,
              include |-> TRUE,
              category |-> ynabAccount.suggestedCategory,
              accessType |-> ynabAccount.suggestedAccessType,
              currency |-> defCurrency]

initialMappings(parsed, existing, defCurrency) ==
    [p \in 1..Len(parsed) |-> InitialMapping(parsed[p], existing, defCurrency)]

(***************************************************************************)
(* YNABImportDialog: summary.                                              *)
(***************************************************************************)

IsIncluded(m) == m.include
IsExact(m) == m.matchType = "exact"
IsNew(m) == m.matchType = "new"
IsFuzzyConfirmed(m) == m.matchType = "fuzzy" /\ m.selectedMatchId # UndefinedId
IsFuzzyUnconfirmed(m) == m.matchType = "fuzzy" /\ m.selectedMatchId = UndefinedId

\* Mutation: canImport does not ask for an included mapping.
summary_NoCountTest(maps) ==
    LET included == SelectSeq(maps, IsIncluded)
        fuzzyUnconfirmed == Len(SelectSeq(included, IsFuzzyUnconfirmed))
    IN  [total |-> Len(included),
         exact |-> Len(SelectSeq(included, IsExact)),
         fuzzyConfirmed |-> Len(SelectSeq(included, IsFuzzyConfirmed)),
         fuzzyUnconfirmed |-> fuzzyUnconfirmed,
         newAccounts |-> Len(SelectSeq(included, IsNew)),
         canImport |-> fuzzyUnconfirmed = 0]

summary(maps) ==
    LET included == SelectSeq(maps, IsIncluded)
        fuzzyUnconfirmed == Len(SelectSeq(included, IsFuzzyUnconfirmed))
    IN  [total |-> Len(included),
         exact |-> Len(SelectSeq(included, IsExact)),
         fuzzyConfirmed |-> Len(SelectSeq(included, IsFuzzyConfirmed)),
         fuzzyUnconfirmed |-> fuzzyUnconfirmed,
         newAccounts |-> Len(SelectSeq(included, IsNew)),
         canImport |-> fuzzyUnconfirmed = 0 /\ Len(included) > 0]

(***************************************************************************)
(* The inputs the dialog is given.                                         *)
(***************************************************************************)
\* Numbers are exact decimals: mant / 10^frac.
Num(mant, frac) == [mant |-> mant, frac |-> frac]

ParsedPool ==
    << [name |-> << "A", "B" >>, balance |-> Num(5, 0),
        ynabType |-> UndefinedStr,
        suggestedCategory |-> "current_asset",
        suggestedAccessType |-> "liquid"],
       [name |-> << "a", "b", "c" >>, balance |-> Num(-3, 0),
        ynabType |-> << "A", "s", "s", "e", "t" >>,
        suggestedCategory |-> "current_asset",
        suggestedAccessType |-> "liquid"],
       [name |-> << "a", "b", "c", "d", "e" >>, balance |-> Num(150, 2),
        ynabType |-> UndefinedStr,
        suggestedCategory |-> "non_current_asset",
        suggestedAccessType |-> "retirement"] >>

ExistingPool ==
    { [name |-> << "a", "b" >>, category |-> "current_liability",
       accessType |-> "liquid", currency |-> "USD"],
      [name |-> << " ", "A", "b" >>, category |-> "non_current_liability",
       accessType |-> "illiquid", currency |-> "GBP"],
      [name |-> << "a", "b", "d" >>, category |-> "non_current_liability",
       accessType |-> "illiquid", currency |-> "GBP"],
      [name |-> << "a", "x" >>, category |-> "current_liability",
       accessType |-> "liquid", currency |-> "USD"] }

DefaultCurrencies == { "EUR", "USD" }

\* What the user picks in the three edit selectors.
CategoryChoices == { "non_current_asset" }
AccessTypeChoices == { "retirement" }
CurrencyChoices == { "PHP" }

AccountIds == << "e1", "e2", "e3", "e4" >>

\* The sub-sequences of ParsedPool with 1..MaxParsed elements: the parser
\* returns accounts with distinct names.
ParsedLists ==
    { picked \in UNION { [1..n -> 1..Len(ParsedPool)] :
                            n \in 1..Min(MaxParsed, Len(ParsedPool)) } :
        \A i, j \in DOMAIN picked : i < j => picked[i] < picked[j] }

\* The lists of 0..MaxExisting accounts; an account's id is unique.
ExistingLists ==
    UNION { [1..n -> ExistingPool] : n \in 0..MaxExisting }

WithId(acc, k) ==
    [id |-> AccountIds[k], name |-> acc.name, category |-> acc.category,
     accessType |-> acc.accessType, currency |-> acc.currency]

(***************************************************************************)
(* YNABImportDialog: the state and its handlers.                           *)
(***************************************************************************)
ParseIdle ==
    /\ csvText = << >>
    /\ parseOutcome = [status |-> "pending", error |-> "", format |-> "null",
                       accounts |-> << >>]

DetectIdle ==
    /\ headers = << >>
    /\ detected = "pending"

\* No call made, nothing returned yet.
NotReturned == [done |-> FALSE, value |-> << >>]

CallIdle ==
    /\ call = [fn |-> "none"]
    /\ returned = NotReturned

\* const { maxHistory = 50 } = options
DefaultMaxHistory == 50

\* useUndoRedo is not in use: the hook as it is after it was called with
\* null and no options.
UndoIdle ==
    /\ state = "null"
    /\ past = << >>
    /\ future = << >>
    /\ maxHistory = DefaultMaxHistory
    /\ initialState = "null"

DialogIdle ==
    /\ parsedAccounts = << >>
    /\ existingAccounts = << >>
    /\ defaultCurrency = "EUR"
    /\ mappings = << >>
    /\ open = FALSE
    /\ imported = Absent

\* What a handler of the dialog leaves alone: the props and everything
\* outside the dialog.
DialogFrame ==
    UNCHANGED << parsedAccounts, existingAccounts, defaultCurrency,
                 csvText, parseOutcome, headers, detected, call, returned,
                 open, imported, state, past, future, maxHistory, initialState >>

\* prev.map((m, i) => (i === index ? { ...m, ...updates } : m))
updateMapping(maps, index, updated) ==
    [i \in 1..Len(maps) |-> IF i = index THEN updated ELSE maps[i]]

FindById(existing, accountId) ==
    LET hits == { k \in 1..Len(existing) : existing[k].id = accountId }
    IN  IF hits = { } THEN Absent
        ELSE Present(existing[CHOOSE k \in hits : \A j \in hits : k <= j])

\* Mutation: confirming a candidate also relabels the mapping as exact.
SelectedMapping_ConfirmAsExact(mapping, existing, accountId) ==
    IF accountId = NewSentinel
    THEN [mapping EXCEPT !.matchType = "new",
                         !.selectedMatchId = UndefinedId,
                         !.matchedAccount = Absent]
    ELSE LET matchedAccount == FindById(existing, accountId)
         IN  [mapping EXCEPT
                !.matchType = "exact",
                !.selectedMatchId = accountId,
                !.matchedAccount = matchedAccount,
                !.category = IF IsSet(matchedAccount)
                             THEN TheValue(matchedAccount).category ELSE @,
                !.accessType = IF IsSet(matchedAccount)
                               THEN TheValue(matchedAccount).accessType ELSE @,
                !.currency = IF IsSet(matchedAccount)
                             THEN TheValue(matchedAccount).currency ELSE @]

\* Mutation: "Create as new account" relabels the mapping as exact.
SelectedMapping_NewAsExact(mapping, existing, accountId) ==
    IF accountId = NewSentinel
    THEN [mapping EXCEPT !.matchType = "exact",
                         !.selectedMatchId = UndefinedId,
                         !.matchedAccount = Absent]
    ELSE LET matchedAccount == FindById(existing, accountId)
         IN  [mapping EXCEPT
                !.selectedMatchId = accountId,
                !.matchedAccount = matchedAccount,
                !.category = IF IsSet(matchedAccount)
                             THEN TheValue(matchedAccount).category ELSE @,
                !.accessType = IF IsSet(matchedAccount)
                               THEN TheValue(matchedAccount).accessType ELSE @,
                !.currency = IF IsSet(matchedAccount)
                             THEN TheValue(matchedAccount).currency ELSE @]

\* The mapping handleSelectMatch leaves at index.
SelectedMapping(mapping, existing, accountId) ==
    IF accountId = NewSentinel
    THEN [mapping EXCEPT !.matchType = "new",
                         !.selectedMatchId = UndefinedId,
                         !.matchedAccount = Absent]
    ELSE LET matchedAccount == FindById(existing, accountId)
         IN  [mapping EXCEPT
                !.selectedMatchId = accountId,
                !.matchedAccount = matchedAccount,
                !.category = IF IsSet(matchedAccount)
                             THEN TheValue(matchedAccount).category ELSE @,
                !.accessType = IF IsSet(matchedAccount)
                               THEN TheValue(matchedAccount).accessType ELSE @,
                !.currency = IF IsSet(matchedAccount)
                             THEN TheValue(matchedAccount).currency ELSE @]

\* The items of the fuzzy match selector of a mapping.
SelectorValues(mapping) ==
    { TheValue(mapping.fuzzyMatches)[k].account.id :
        k \in 1..Len(TheValue(mapping.fuzzyMatches)) } \cup { NewSentinel }

\* The selector is rendered for a fuzzy mapping that has fuzzyMatches.
SelectorShown(mapping) ==
    mapping.matchType = "fuzzy" /\ IsSet(mapping.fuzzyMatches)

\* Mutation: the edit controls stay visible after a match was selected.
EditControlsShown_AnyFuzzy(mapping) ==
    mapping.matchType = "new" \/ mapping.matchType = "fuzzy"

\* The category / access type / currency controls are rendered for a new
\* mapping and for a fuzzy mapping without a selected match.
EditControlsShown(mapping) ==
    \/ mapping.matchType = "new"
    \/ mapping.matchType = "fuzzy" /\ mapping.selectedMatchId = UndefinedId

DialogInit ==
    /\ parsedAccounts \in
         { [i \in DOMAIN picked |-> ParsedPool[picked[i]]] : picked \in ParsedLists }
    /\ existingAccounts \in
         { [k \in DOMAIN list |-> WithId(list[k], k)] : list \in ExistingLists }
    /\ defaultCurrency \in DefaultCurrencies
    /\ mappings = initialMappings(parsedAccounts, existingAccounts, defaultCurrency)
    /\ open = TRUE
    /\ imported = Absent

ToggleInclude(index, checked) ==
    /\ index \in 1..Len(mappings)
    /\ mappings' = updateMapping(mappings, index,
                                 [mappings[index] EXCEPT !.include = checked])
    /\ DialogFrame

handleSelectMatch(index, accountId) ==
    /\ index \in 1..Len(mappings)
    /\ SelectorShown(mappings[index])
    /\ accountId \in SelectorValues(mappings[index])
    /\ mappings' = updateMapping(mappings, index,
                      SelectedMapping(mappings[index], existingAccounts, accountId))
    /\ DialogFrame

EditCategory(index, value) ==
    /\ index \in 1..Len(mappings)
    /\ EditControlsShown(mappings[index])
    /\ mappings' = updateMapping(mappings, index,
                                 [mappings[index] EXCEPT !.category = value])
    /\ DialogFrame

EditAccessType(index, value) ==
    /\ index \in 1..Len(mappings)
    /\ EditControlsShown(mappings[index])
    /\ mappings' = updateMapping(mappings, index,
                                 [mappings[index] EXCEPT !.accessType = value])
    /\ DialogFrame

EditCurrency(index, value) ==
    /\ index \in 1..Len(mappings)
    /\ EditControlsShown(mappings[index])
    /\ mappings' = updateMapping(mappings, index,
                                 [mappings[index] EXCEPT !.currency = value])
    /\ DialogFrame

Init == DialogInit /\ ParseIdle /\ DetectIdle /\ CallIdle /\ UndoIdle

Next ==
    \/ \E index \in DOMAIN mappings, checked \in BOOLEAN :
           ToggleInclude(index, checked)
    \/ \E index \in DOMAIN mappings, accountId \in Range(AccountIds) \cup { NewSentinel } :
           handleSelectMatch(index, accountId)
    \/ \E index \in DOMAIN mappings, value \in CategoryChoices :
           EditCategory(index, value)
    \/ \E index \in DOMAIN mappings, value \in AccessTypeChoices :
           EditAccessType(index, value)
    \/ \E index \in DOMAIN mappings, value \in CurrencyChoices :
           EditCurrency(index, value)

Spec == Init /\ [][Next]_vars

(***************************************************************************)
(* Properties of the reconciler and of the dialog state.                   *)
(***************************************************************************)
\* The existing accounts whose name equals the parsed name, both lower-cased
\* and trimmed.
SameNameIndexes(ynabAccount) ==
    { k \in DOMAIN existingAccounts :
        Trim(ToLowerCase(existingAccounts[k].name))
            = Trim(ToLowerCase(ynabAccount.name)) }

\* The existing accounts that score at least 0.6 against the parsed name.
CandidateIndexes(ynabAccount) ==
    { k \in DOMAIN existingAccounts :
        LET score == stringSimilarity(ynabAccount.name, existingAccounts[k].name)
        IN  10 * score.num >= 6 * score.den }

IndexOfId(accountId) ==
    CHOOSE k \in DOMAIN existingAccounts : existingAccounts[k].id = accountId

TheInitialMappings ==
    initialMappings(parsedAccounts, existingAccounts, defaultCurrency)

\* C1: when some existing account has the parsed account's name (lower-cased
\* and trimmed), the initial mapping is exact, matched to the first such
\* account in list order, included, and carries that account's category,
\* access type and currency; the dialog never changes the match or these
\* three fields of an exact mapping.
C1_ExactMatch ==
    \A p \in DOMAIN parsedAccounts :
        LET same == SameNameIndexes(parsedAccounts[p])
        IN  same # { } =>
              LET first == CHOOSE k \in same : \A j \in same : k <= j
                  acc == existingAccounts[first]
                  m0 == TheInitialMappings[p]
                  m == mappings[p]
              IN  /\ m0.matchType = "exact"
                  /\ m0.matchedAccount = << acc >>
                  /\ m0.include = TRUE
                  /\ m0.category = acc.category
                  /\ m0.accessType = acc.accessType
                  /\ m0.currency = acc.currency
                  /\ m.matchType = "exact"
                  /\ m.matchedAccount = << acc >>
                  /\ m.category = acc.category
                  /\ m.accessType = acc.accessType
                  /\ m.currency = acc.currency

\* Two existing accounts carry the parsed name, they differ in category and
\* currency, and the mapping (excluded by the user meanwhile) took the first,
\* whose values are neither the suggestion nor the default currency.
C1_Witness ==
    \E p \in DOMAIN parsedAccounts :
        LET same == SameNameIndexes(parsedAccounts[p])
        IN  /\ Cardinality(same) >= 2
            /\ \E j, k \in same :
                   existingAccounts[j].category # existingAccounts[k].category
            /\ mappings[p].matchType = "exact"
            /\ mappings[p].include = FALSE
            /\ mappings[p].category # parsedAccounts[p].suggestedCategory
            /\ mappings[p].currency # defaultCurrency

\* C2: without an exact match the candidate list is exactly the existing
\* accounts scoring >= 0.6, by descending score and, for equal scores, in
\* list order; a non-empty list makes the mapping fuzzy with no selected and
\* no matched account, an empty one makes it new; either way category and
\* access type are the classifier's suggestion, the currency is the default
\* currency and the mapping is included.
C2_NoExactMatch ==
    \A p \in DOMAIN parsedAccounts :
        LET y == parsedAccounts[p]
            cands == CandidateIndexes(y)
            m0 == TheInitialMappings[p]
        IN  SameNameIndexes(y) = { } =>
              /\ m0.category = y.suggestedCategory
              /\ m0.accessType = y.suggestedAccessType
              /\ m0.currency = defaultCurrency
              /\ m0.include = TRUE
              /\ m0.selectedMatchId = UndefinedId
              /\ m0.matchedAccount = << >>
              /\ cands = { } => m0.matchType = "new" /\ m0.fuzzyMatches = << >>
              /\ cands # { } =>
                   /\ m0.matchType = "fuzzy"
                   /\ Len(m0.fuzzyMatches) = 1
                   /\ LET list == m0.fuzzyMatches[1]
                          at(i) == IndexOfId(list[i].account.id)
                      IN  /\ Len(list) = Cardinality(cands)
                          /\ { at(i) : i \in DOMAIN list } = cands
                          /\ \A i \in DOMAIN list :
                               /\ list[i].account = existingAccounts[at(i)]
                               /\ list[i].similarity =
                                    stringSimilarity(y.name, list[i].account.name)
                          /\ \A i, j \in DOMAIN list :
                               i < j =>
                                 LET si == list[i].similarity
                                     sj == list[j].similarity
                                 IN  \/ si.num * sj.den > sj.num * si.den
                                     \/ /\ si.num * sj.den = sj.num * si.den
                                        /\ at(i) < at(j)

\* A fuzzy mapping of the initial state whose list was reordered (the second
\* existing account comes first) and ends with a score of exactly 0.6.
C2_Witness ==
    \E p \in DOMAIN parsedAccounts :
        /\ mappings[p] = TheInitialMappings[p]
        /\ mappings[p].matchType = "fuzzy"
        /\ LET list == mappings[p].fuzzyMatches[1]
           IN  /\ Len(list) >= 2
               /\ list[1].account = existingAccounts[2]
               /\ list[Len(list)].similarity.num * 10
                    = 6 * list[Len(list)].similarity.den

\* C3: in every reachable state an exact mapping has a matched account and
\* no candidate list, and a fuzzy mapping has a non-empty candidate list
\* whose scores are all >= 0.6 and non-increasing.
C3_MappingInvariant ==
    \A p \in DOMAIN mappings :
        LET m == mappings[p]
        IN  /\ m.matchType = "exact" =>
                 Len(m.matchedAccount) = 1 /\ m.fuzzyMatches = << >>
            /\ m.matchType = "fuzzy" =>
                 /\ Len(m.fuzzyMatches) = 1
                 /\ Len(m.fuzzyMatches[1]) > 0
                 /\ \A i \in DOMAIN m.fuzzyMatches[1] :
                      10 * m.fuzzyMatches[1][i].similarity.num
                          >= 6 * m.fuzzyMatches[1][i].similarity.den
                 /\ \A i, j \in DOMAIN m.fuzzyMatches[1] :
                      i < j =>
                        m.fuzzyMatches[1][i].similarity.num
                              * m.fuzzyMatches[1][j].similarity.den
                          >= m.fuzzyMatches[1][j].similarity.num
                              * m.fuzzyMatches[1][i].similarity.den

\* A fuzzy mapping with two candidates of different scores after the user
\* confirmed the second candidate and excluded the mapping.
C3_Witness ==
    \E p \in DOMAIN mappings :
        /\ mappings[p].matchType = "fuzzy"
        /\ mappings[p].include = FALSE
        /\ Len(mappings[p].fuzzyMatches[1]) >= 2
        /\ mappings[p].fuzzyMatches[1][1].similarity
             # mappings[p].fuzzyMatches[1][2].similarity
        /\ mappings[p].selectedMatchId = mappings[p].fuzzyMatches[1][2].account.id

\* C4: in every reachable state only a fuzzy mapping carries a candidate
\* list (fuzzyMatches).
C4_CandidatesOnlyForFuzzy ==
    \A p \in DOMAIN mappings :
        mappings[p].fuzzyMatches # << >> => mappings[p].matchType = "fuzzy"

ImportReady(m) ==
    \/ m.include = FALSE
    \/ m.matchType \in { "exact", "new" }
    \/ m.matchType = "fuzzy" /\ m.selectedMatchId # UndefinedId

C6_WitnessNew ==
    \E p \in DOMAIN mappings :
        mappings[p].matchType = "new" /\ mappings[p].fuzzyMatches # << >>

(***************************************************************************)
(* ynabParser: detectYNABFormat.                                           *)
(***************************************************************************)
\* Mutation: the register test comes before the net worth test.
detectYNABFormat_RegisterFirst(headerRow) ==
    LET headerSet == { Trim(ToLowerCase(headerRow[k])) : k \in DOMAIN headerRow }
    IN  IF /\ << "i", "n", "f", "l", "o", "w" >> \in headerSet
           /\ << "o", "u", "t", "f", "l", "o", "w" >> \in headerSet
           /\ << "a", "c", "c", "o", "u", "n", "t" >> \in headerSet
        THEN "register"
        ELSE IF << "m", "o", "n", "t", "h" >> \in headerSet /\ << "a", "c", "c", "o", "u", "n", "t", " ", "t", "y", "p", "e" >> \in headerSet
        THEN "networth"
        ELSE "null"

detectYNABFormat(headerRow) ==
    LET headerSet == { Trim(ToLowerCase(headerRow[k])) : k \in DOMAIN headerRow }
    IN  IF << "m", "o", "n", "t", "h" >> \in headerSet /\ << "a", "c", "c", "o", "u", "n", "t", " ", "t", "y", "p", "e" >> \in headerSet
        THEN "networth"
        ELSE IF /\ << "i", "n", "f", "l", "o", "w" >> \in headerSet
                /\ << "o", "u", "t", "f", "l", "o", "w" >> \in headerSet
                /\ << "a", "c", "c", "o", "u", "n", "t" >> \in headerSet
        THEN "register"
        ELSE "null"

(***************************************************************************)
(* ynabParser: parseCSV.                                                   *)
(***************************************************************************)
\* currentLine.some(f => f.length > 0)
HasContent(line) == \E k \in DOMAIN line : Len(line[k]) > 0

\* Mutation: inside quotes every quote character ends the quoting.
CsvStep_NoDoubledQuote(text, i, st) ==
    LET char == text[i]
        nextIs(c) == i + 1 <= Len(text) /\ text[i + 1] = c
    IN  IF st.inQuotes
        THEN IF char = "\""
             THEN [st EXCEPT !.inQuotes = FALSE, !.next = i + 1]
             ELSE [st EXCEPT !.currentField = Append(@, char), !.next = i + 1]
        ELSE IF char = "\""
             THEN [st EXCEPT !.inQuotes = TRUE, !.next = i + 1]
             ELSE IF char = "," \/ char = ";"
             THEN [st EXCEPT !.currentLine = Append(@, Trim(st.currentField)),
                             !.currentField = << >>,
                             !.next = i + 1]
             ELSE IF char = "\n" \/ (char = "\r" /\ nextIs("\n"))
             THEN [st EXCEPT
                     !.lines = IF HasContent(Append(st.currentLine, Trim(st.currentField)))
                               THEN Append(@, Append(st.currentLine, Trim(st.currentField)))
                               ELSE @,
                     !.currentLine = << >>,
                     !.currentField = << >>,
                     !.next = IF char = "\r" THEN i + 2 ELSE i + 1]
             ELSE IF char # "\r"
             THEN [st EXCEPT !.currentField = Append(@, char), !.next = i + 1]
             ELSE [st EXCEPT !.next = i + 1]

\* The loop body for text[i]; next is the value of i for the next round.
CsvStep(text, i, st) ==
    LET char == text[i]
        hasNext == i + 1 <= Len(text)
        nextIs(c) == hasNext /\ text[i + 1] = c
    IN  IF st.inQuotes
        THEN IF char = "\"" /\ nextIs("\"")
             THEN [st EXCEPT !.currentField = Append(@, "\""), !.next = i + 2]
             ELSE IF char = "\""
             THEN [st EXCEPT !.inQuotes = FALSE, !.next = i + 1]
             ELSE [st EXCEPT !.currentField = Append(@, char), !.next = i + 1]
        ELSE IF char = "\""
             THEN [st EXCEPT !.inQuotes = TRUE, !.next = i + 1]
             ELSE IF char = "," \/ char = ";"
             THEN [st EXCEPT !.currentLine = Append(@, Trim(st.currentField)),
                             !.currentField = << >>,
                             !.next = i + 1]
             ELSE IF char = "\n" \/ (char = "\r" /\ nextIs("\n"))
             THEN LET line == Append(st.currentLine, Trim(st.currentField))
                  IN  [st EXCEPT
                         !.lines = IF HasContent(line) THEN Append(@, line) ELSE @,
                         !.currentLine = << >>,
                         !.currentField = << >>,
                         !.next = IF char = "\r" THEN i + 2 ELSE i + 1]
             ELSE IF char # "\r"
             THEN [st EXCEPT !.currentField = Append(@, char), !.next = i + 1]
             ELSE [st EXCEPT !.next = i + 1]

\* The for loop.
RECURSIVE CsvLoop(_, _)
CsvLoop(text, st) ==
    IF st.next > Len(text) THEN st ELSE CsvLoop(text, CsvStep(text, st.next, st))

\* The last field and line, after the loop.
CsvEnd(st) ==
    LET line == Append(st.currentLine, Trim(st.currentField))
    IN  IF HasContent(line) THEN Append(st.lines, line) ELSE st.lines

parseCSV(text) ==
    CsvEnd(CsvLoop(text, [lines |-> << >>, currentLine |-> << >>,
                          currentField |-> << >>, inQuotes |-> FALSE,
                          next |-> 1]))

(***************************************************************************)
(* ynabParser: parseCurrencyValue.  A number is the exact decimal          *)
(* mant / 10^frac with no trailing zero in the fraction.                   *)
(***************************************************************************)
\* !value : undefined and the empty string are falsy
Falsy(value) == value = UndefinedStr \/ value = << >>

\* What a string method called on undefined raises; as a value it stands
\* for a call that did not return.
TypeError == [threw |-> "TypeError"]

RECURSIVE Pow10(_)
Pow10(n) == IF n <= 0 THEN 1 ELSE 10 * Pow10(n - 1)

RECURSIVE Normalize(_, _)
Normalize(mant, frac) ==
    IF mant = 0 THEN Num(0, 0)
    ELSE IF frac > 0 /\ mant % 10 = 0 THEN Normalize(mant \div 10, frac - 1)
    ELSE IF frac < 0 THEN Num(mant * Pow10(-frac), 0)
    ELSE Num(mant, frac)

Zero == Num(0, 0)

NumAdd(x, y) ==
    LET frac == Max(x.frac, y.frac)
    IN  Normalize(x.mant * Pow10(frac - x.frac) + y.mant * Pow10(frac - y.frac), frac)

NumNeg(x) == Num(-x.mant, x.frac)
NumSub(x, y) == NumAdd(x, NumNeg(y))

Digits == { "0", "1", "2", "3", "4", "5", "6", "7", "8", "9" }
DigitValue(c) == CharCode[c] - 48

\* The number of digits of s from position from on.
RECURSIVE DigitRun(_, _)
DigitRun(s, from) ==
    IF from <= Len(s) /\ s[from] \in Digits THEN 1 + DigitRun(s, from + 1) ELSE 0

RECURSIVE DigitsToInt(_, _)
DigitsToInt(s, acc) ==
    IF s = << >> THEN acc ELSE DigitsToInt(Tail(s), 10 * acc + DigitValue(Head(s)))

\* parseFloat reads the longest prefix [sign] digits [. digits]
\* [e [sign] digits] after the leading white space, and gives NaN
\* ([nan |-> TRUE]) when there is no digit before the exponent.  The literal
\* Infinity is not modelled.

\* The value of the exponent part that starts at ePos; 0 when there is none.
FloatExponent(s, ePos) ==
    LET hasE == ePos <= Len(s) /\ s[ePos] \in { "e", "E" }
        eSignLen == IF hasE /\ ePos + 1 <= Len(s) /\ s[ePos + 1] \in { "+", "-" }
                    THEN 1 ELSE 0
        eLen == IF hasE THEN DigitRun(s, ePos + eSignLen + 1) ELSE 0
        eAbs == DigitsToInt(SubSeq(s, ePos + eSignLen + 1, ePos + eSignLen + eLen), 0)
    IN  IF eLen = 0 THEN 0
        ELSE IF eSignLen = 1 /\ s[ePos + 1] = "-" THEN -eAbs ELSE eAbs

\* The number read, given the lengths of its sign, integer digits, dot and
\* fraction digits.
FloatValue(s, signLen, intLen, dotLen, fracLen) ==
    LET dotPos == signLen + intLen + 1
        mant == DigitsToInt(SubSeq(s, signLen + 1, signLen + intLen)
                              \o SubSeq(s, dotPos + 1, dotPos + fracLen), 0)
        exponent == FloatExponent(s, signLen + intLen + dotLen + fracLen + 1)
    IN  IF intLen = 0 /\ fracLen = 0
        THEN [nan |-> TRUE, value |-> Zero]
        ELSE [nan |-> FALSE,
              value |-> Normalize(IF signLen = 1 /\ s[1] = "-" THEN -mant ELSE mant,
                                  fracLen - exponent)]

\* The dot and the fraction digits after the integer digits.
FloatFraction(s, signLen, intLen) ==
    LET dotPos == signLen + intLen + 1
    IN  IF dotPos <= Len(s) /\ s[dotPos] = "."
        THEN FloatValue(s, signLen, intLen, 1, DigitRun(s, dotPos + 1))
        ELSE FloatValue(s, signLen, intLen, 0, 0)

\* The integer digits after the sign.
FloatInteger(s, signLen) == FloatFraction(s, signLen, DigitRun(s, signLen + 1))

parseFloat(str) ==
    LET s == TrimStart(str)
    IN  FloatInteger(s, IF Len(s) >= 1 /\ s[1] \in { "+", "-" } THEN 1 ELSE 0)

CurrencySymbols == { "<euro>", "$", "<pound>", "<peso>" }

NotSymbolOrSpace(c) == c \notin CurrencySymbols /\ c \notin WhiteSpace
NotComma(c) == c # ","
NotDot(c) == c # "."

\* s.lastIndexOf(c), counted from 1; 0 when c does not occur
LastIndexOf(s, c) ==
    LET at == { k \in DOMAIN s : s[k] = c }
    IN  IF at = { } THEN 0 ELSE CHOOSE k \in at : \A j \in at : k >= j

\* s.replace(c, d) with a string pattern: the first occurrence only
ReplaceFirst(s, c, d) ==
    LET at == { k \in DOMAIN s : s[k] = c }
    IN  IF at = { } THEN s
        ELSE LET first == CHOOSE k \in at : \A j \in at : k <= j
             IN  [k \in DOMAIN s |-> IF k = first THEN d ELSE s[k]]

\* The string handed to parseFloat.
CleanedAmount(value) ==
    LET cleaned == SelectSeq(value, NotSymbolOrSpace)
        hasComma == \E k \in DOMAIN cleaned : cleaned[k] = ","
        hasDot == \E k \in DOMAIN cleaned : cleaned[k] = "."
    IN  IF hasComma /\ hasDot
        THEN IF LastIndexOf(cleaned, ",") > LastIndexOf(cleaned, ".")
             THEN ReplaceFirst(SelectSeq(cleaned, NotDot), ",", ".")
             ELSE SelectSeq(cleaned, NotComma)
        ELSE IF hasComma /\ ~hasDot
        THEN \* parts[parts.length - 1].length === 2
             IF Len(cleaned) - LastIndexOf(cleaned, ",") = 2
             THEN ReplaceFirst(cleaned, ",", ".")
             ELSE SelectSeq(cleaned, NotComma)
        ELSE cleaned

\* A number, or TypeError when a string method is reached with undefined.
\* isNaN(num) ? 0 : num
\* isNaN(num) ? 1 : num
ZeroIfNaN_One(num) == IF num.nan THEN Num(1, 0) ELSE num.value

ZeroIfNaN(num) == IF num.nan THEN Zero ELSE num.value

parseCurrencyValue(value) ==
    IF Falsy(value) THEN Zero
    ELSE IF value = UndefinedStr THEN TypeError
    ELSE IF Trim(value) = << >> THEN Zero
    ELSE ZeroIfNaN(parseFloat(CleanedAmount(value)))

(***************************************************************************)
(* ynabParser: suggestAccountType.  RegExp.test with alternatives of       *)
(* literal words is a substring search; a\s*b is a, white space, b.        *)
(***************************************************************************)
ContainsAny(s, words) == \E w \in words : Includes(s, w)

\* /first\s*second/.test(s)
ContainsSpaced(s, first, second) ==
    \E k \in 0..Len(s), n \in 0..Len(s) :
        /\ k + Len(first) + n + Len(second) <= Len(s)
        /\ SubSeq(s, k + 1, k + Len(first)) = first
        /\ \A j \in (k + Len(first) + 1)..(k + Len(first) + n) : s[j] \in WhiteSpace
        /\ SubSeq(s, k + Len(first) + n + 1, k + Len(first) + n + Len(second)) = second

LiabilityWords ==
    { << "c", "r", "e", "d", "i", "t" >>, << "v", "i", "s", "a" >>, << "m", "a", "s", "t", "e", "r", "c", "a", "r", "d" >>, << "a", "m", "e", "x" >>, << "c", "a", "r", "d" >>, << "l", "o", "a", "n" >>,
      << "m", "o", "r", "t", "g", "a", "g", "e" >>, << "d", "e", "b", "t" >>, << "o", "w", "e" >> }

IsLongTermLiability(lower) ==
    \/ Includes(lower, << "m", "o", "r", "t", "g", "a", "g", "e" >>)
    \/ ContainsSpaced(lower, << "h", "o", "m", "e" >>, << "l", "o", "a", "n" >>)
    \/ ContainsSpaced(lower, << "c", "a", "r" >>, << "l", "o", "a", "n" >>)
    \/ ContainsSpaced(lower, << "s", "t", "u", "d", "e", "n", "t" >>, << "l", "o", "a", "n" >>)
    \/ ContainsSpaced(lower, << "a", "u", "t", "o" >>, << "l", "o", "a", "n" >>)

RetirementWords ==
    { << "4", "0", "1", "k" >>, << "4", "0", "1", "(", "k", ")" >>, << "i", "r", "a" >>, << "r", "o", "t", "h" >>, << "p", "e", "n", "s", "i", "o", "n" >>, << "r", "e", "t", "i", "r", "e", "m", "e", "n", "t" >>,
      << "s", "u", "p", "e", "r" >>, << "s", "s", "s" >>, << "p", "a", "g", "i", "b", "i", "g" >>, << "p", "a", "g", "-", "i", "b", "i", "g" >> }

InvestmentWords ==
    { << "i", "n", "v", "e", "s", "t" >>, << "b", "r", "o", "k", "e", "r", "a", "g", "e" >>, << "s", "t", "o", "c", "k" >>, << "e", "t", "f" >>, << "f", "u", "n", "d" >>, << "p", "o", "r", "t", "f", "o", "l", "i", "o" >>,
      << "t", "r", "a", "d", "i", "n", "g" >> }

IsRealEstate(lower) ==
    \/ ContainsAny(lower, { << "p", "r", "o", "p", "e", "r", "t", "y" >>, << "h", "o", "u", "s", "e" >>, << "h", "o", "m", "e" >>, << "c", "o", "n", "d", "o" >>,
                            << "a", "p", "a", "r", "t", "m", "e", "n", "t" >>, << "l", "a", "n", "d" >> })
    \/ ContainsSpaced(lower, << "r", "e", "a", "l" >>, << "e", "s", "t", "a", "t", "e" >>)

IsLiquid(lower) ==
    \/ ContainsAny(lower, { << "c", "h", "e", "c", "k" >>, << "s", "a", "v", "i", "n", "g" >>, << "c", "a", "s", "h" >>, << "w", "a", "l", "l", "e", "t" >>,
                            << "e", "m", "e", "r", "g", "e", "n", "c", "y" >>, << "p", "e", "t", "t", "y" >> })
    \/ ContainsSpaced(lower, << "c", "u", "r", "r", "e", "n", "t" >>, << "a", "c", "c", "o", "u", "n", "t" >>)

Suggestion(category, accessType) ==
    [category |-> category, accessType |-> accessType]

\* suggestAccountType with the retirement rule tried before the liability one
suggestAccountType_RetirementFirst(name, ynabType) ==
    IF ContainsAny(ToLowerCase(name), RetirementWords)
    THEN Suggestion("non_current_asset", "retirement")
    ELSE IF ynabType = << "L", "i", "a", "b", "i", "l", "i", "t", "y" >> \/ ContainsAny(ToLowerCase(name), LiabilityWords)
    THEN IF IsLongTermLiability(ToLowerCase(name))
         THEN Suggestion("non_current_liability", "illiquid")
         ELSE Suggestion("current_liability", "liquid")
    ELSE IF ContainsAny(ToLowerCase(name), InvestmentWords)
    THEN Suggestion("non_current_asset", "liquid")
    ELSE IF IsRealEstate(ToLowerCase(name))
    THEN Suggestion("non_current_asset", "illiquid")
    ELSE Suggestion("current_asset", "liquid")

\* suggestAccountType with the hint Asset tried before the name
suggestAccountType_AssetHintFirst(name, ynabType) ==
    IF ynabType = << "A", "s", "s", "e", "t" >>
    THEN Suggestion("current_asset", "liquid")
    ELSE IF ynabType = << "L", "i", "a", "b", "i", "l", "i", "t", "y" >> \/ ContainsAny(ToLowerCase(name), LiabilityWords)
    THEN IF IsLongTermLiability(ToLowerCase(name))
         THEN Suggestion("non_current_liability", "illiquid")
         ELSE Suggestion("current_liability", "liquid")
    ELSE IF ContainsAny(ToLowerCase(name), RetirementWords)
    THEN Suggestion("non_current_asset", "retirement")
    ELSE IF ContainsAny(ToLowerCase(name), InvestmentWords)
    THEN Suggestion("non_current_asset", "liquid")
    ELSE IF IsRealEstate(ToLowerCase(name))
    THEN Suggestion("non_current_asset", "illiquid")
    ELSE Suggestion("current_asset", "liquid")

suggestAccountType(name, ynabType) ==
    LET lower == ToLowerCase(name)
    IN  IF ynabType = << "L", "i", "a", "b", "i", "l", "i", "t", "y" >> \/ ContainsAny(lower, LiabilityWords)
        THEN IF IsLongTermLiability(lower)
             THEN Suggestion("non_current_liability", "illiquid")
             ELSE Suggestion("current_liability", "liquid")
        ELSE IF ContainsAny(lower, RetirementWords)
        THEN Suggestion("non_current_asset", "retirement")
        ELSE IF ContainsAny(lower, InvestmentWords)
        THEN Suggestion("non_current_asset", "liquid")
        ELSE IF IsRealEstate(lower)
        THEN Suggestion("non_current_asset", "illiquid")
        ELSE IF IsLiquid(lower)
        THEN Suggestion("current_asset", "liquid")
        ELSE IF ynabType = << "A", "s", "s", "e", "t" >>
        THEN Suggestion("current_asset", "liquid")
        ELSE Suggestion("current_asset", "liquid")

(***************************************************************************)
(* ynabParser: parseNetWorthReport, parseRegister, parseYNABCSV.           *)
(* Columns are counted from 1; 0 stands for the -1 of indexOf/findIndex.   *)
(***************************************************************************)
EmptyDocument == "Empty CSV file"
UnrecognizedFormat ==
    "Unrecognized YNAB CSV format. Please export from YNAB as either a Register or Net Worth report."
NetWorthMissingColumns ==
    "Invalid Net Worth report: missing Account or Balance columns"
RegisterMissingColumns ==
    "Invalid Register format: missing Account, Inflow, or Outflow columns"
NoAccountsFound == "No accounts found in the CSV file"

\* row[idx]
Cell(row, idx) == IF idx \in DOMAIN row THEN row[idx] ELSE UndefinedStr

\* a > b on strings: by UTF-16 code units
StringGreater(a, b) ==
    \E k \in DOMAIN a :
        /\ k - 1 <= Len(b)
        /\ \A j \in 1..(k - 1) : a[j] = b[j]
        /\ \/ k > Len(b)
           \/ CharCode[a[k]] > CharCode[b[k]]

\* rows[0].map(h => h.toLowerCase().trim())
LowerHeaders(rows) == [k \in DOMAIN rows[1] |-> Trim(ToLowerCase(rows[1][k]))]

FirstIndex(hits) ==
    IF hits = { } THEN 0 ELSE CHOOSE k \in hits : \A j \in hits : k <= j

\* headers.indexOf(word)
IndexOf(hdrs, word) == FirstIndex({ k \in DOMAIN hdrs : hdrs[k] = word })

\* headers.findIndex(h => h === 'balance' || h.includes('balance'))
BalanceIndex(hdrs) ==
    FirstIndex({ k \in DOMAIN hdrs :
                   hdrs[k] = << "b", "a", "l", "a", "n", "c", "e" >> \/ Includes(hdrs[k], << "b", "a", "l", "a", "n", "c", "e" >>) })

\* Mutation: the test is accountName.trim() === '' alone.
NameTest_NoFalsyTest(accountName) ==
    IF accountName = UndefinedStr THEN TypeError.threw
    ELSE IF Trim(accountName) = << >> THEN "skip"
    ELSE "keep"

\* Mutation: only a missing cell is skipped.
NameTest_MissingOnly(accountName) ==
    IF accountName = UndefinedStr THEN "skip" ELSE "keep"

\* if (!accountName || accountName.trim() === '') continue;
\* "skip" is the continue, "keep" the fall through; trim() of undefined
\* throws.
NameTest(accountName) ==
    IF Falsy(accountName) THEN "skip"
    ELSE IF accountName = UndefinedStr THEN TypeError.threw
    ELSE IF Trim(accountName) = << >> THEN "skip"
    ELSE "keep"

\* Map.prototype.set: a new key goes last, a known key keeps its place
MapSet(map, key, value) ==
    IF \E k \in DOMAIN map : map[k].key = key
    THEN [k \in DOMAIN map |->
            IF map[k].key = key THEN [key |-> key, value |-> value] ELSE map[k]]
    ELSE Append(map, [key |-> key, value |-> value])

MapHas(map, key) == \E k \in DOMAIN map : map[k].key = key
MapGet(map, key) == map[CHOOSE k \in DOMAIN map : map[k].key = key].value

Returned(accounts) == [threw |-> "", accounts |-> accounts]
Threw(error) == [threw |-> error, accounts |-> << >>]

\* Mutation: the month of the last row that has one.
RECURSIVE MostRecentMonth_LastSeen(_, _, _, _)
MostRecentMonth_LastSeen(rows, monthIdx, i, mostRecentMonth) ==
    IF i > Len(rows) THEN mostRecentMonth
    ELSE MostRecentMonth_LastSeen(rows, monthIdx, i + 1,
             IF ~Falsy(Cell(rows[i], monthIdx))
             THEN Cell(rows[i], monthIdx) ELSE mostRecentMonth)

\* The first loop of parseNetWorthReport.
RECURSIVE MostRecentMonth(_, _, _, _)
MostRecentMonth(rows, monthIdx, i, mostRecentMonth) ==
    IF i > Len(rows) THEN mostRecentMonth
    ELSE MostRecentMonth(rows, monthIdx, i + 1,
             IF /\ ~Falsy(Cell(rows[i], monthIdx))
                /\ StringGreater(Cell(rows[i], monthIdx), mostRecentMonth)
             THEN Cell(rows[i], monthIdx) ELSE mostRecentMonth)

\* Mutation: only one of the two columns has to be there.
NetWorthColumnsMissing_Both(accountIdx, balanceIdx) ==
    accountIdx = 0 /\ balanceIdx = 0

NetWorthColumnsMissing(accountIdx, balanceIdx) ==
    accountIdx = 0 \/ balanceIdx = 0

\* accountIdx, typeIdx, balanceIdx and monthIdx
NetWorthColumns(hdrs) ==
    [account |-> IndexOf(hdrs, << "a", "c", "c", "o", "u", "n", "t" >>),
     type |-> IndexOf(hdrs, << "a", "c", "c", "o", "u", "n", "t", " ", "t", "y", "p", "e" >>),
     balance |-> BalanceIndex(hdrs),
     month |-> IndexOf(hdrs, << "m", "o", "n", "t", "h" >>)]

\* A round of the second loop from the test of the account name on; acc is
\* the map so far, and acc.threw stops the loop.
NetWorthSet(acc, accountName, test, balance, ynabType) ==
    IF test = "skip" THEN acc
    ELSE IF test = TypeError.threw \/ balance = TypeError
    THEN [acc EXCEPT !.threw = TypeError.threw]
    ELSE [acc EXCEPT !.map =
            MapSet(@, accountName, [balance |-> balance, type |-> ynabType])]

\* A round of the second loop, for the row.
NetWorthRow(row, idx, mostRecentMonth, acc) ==
    IF (IF idx.month >= 1 THEN Cell(row, idx.month) ELSE mostRecentMonth)
         # mostRecentMonth
    THEN acc
    ELSE NetWorthSet(acc,
                     Cell(row, idx.account),
                     NameTest(Cell(row, idx.account)),
                     parseCurrencyValue(Cell(row, idx.balance)),
                     IF idx.type >= 1 THEN Cell(row, idx.type) ELSE UndefinedStr)

\* The second loop of parseNetWorthReport.
RECURSIVE NetWorthLoop(_, _, _, _, _)
NetWorthLoop(rows, idx, mostRecentMonth, i, acc) ==
    IF i > Len(rows) \/ acc.threw # "" THEN acc
    ELSE NetWorthLoop(rows, idx, mostRecentMonth, i + 1,
                      NetWorthRow(rows[i], idx, mostRecentMonth, acc))

\* An element of the array returned.
ParsedAccount(name, balance, ynabType, suggested) ==
    [name |-> name,
     balance |-> balance,
     ynabType |-> ynabType,
     suggestedCategory |-> suggested.category,
     suggestedAccessType |-> suggested.accessType]

\* Array.from(accountMap.entries()).map(...), or what stopped the loop.
NetWorthAccounts(done) ==
    IF done.threw # "" THEN Threw(done.threw)
    ELSE Returned(
           [k \in DOMAIN done.map |->
              ParsedAccount(done.map[k].key,
                            done.map[k].value.balance,
                            done.map[k].value.type,
                            suggestAccountType(done.map[k].key,
                                               done.map[k].value.type))])

\* parseNetWorthReport from the test of the columns on.
NetWorthRows(rows, idx) ==
    IF NetWorthColumnsMissing(idx.account, idx.balance)
    THEN Threw(NetWorthMissingColumns)
    ELSE NetWorthAccounts(
             NetWorthLoop(rows, idx, MostRecentMonth(rows, idx.month, 2, << >>), 2,
                          [threw |-> "", map |-> << >>]))

parseNetWorthReport(rows) ==
    IF Len(rows) < 2 THEN Returned(<< >>)
    ELSE NetWorthRows(rows, NetWorthColumns(LowerHeaders(rows)))

RegisterColumnsMissing(accountIdx, inflowIdx, outflowIdx) ==
    accountIdx = 0 \/ inflowIdx = 0 \/ outflowIdx = 0

\* accountIdx, inflowIdx and outflowIdx
RegisterColumns(hdrs) ==
    [account |-> IndexOf(hdrs, << "a", "c", "c", "o", "u", "n", "t" >>),
     inflow |-> IndexOf(hdrs, << "i", "n", "f", "l", "o", "w" >>),
     outflow |-> IndexOf(hdrs, << "o", "u", "t", "f", "l", "o", "w" >>)]

\* Mutation: the amount of the row replaces the balance.
RegisterSet_Overwrite(acc, accountName, test, inflow, outflow) ==
    IF test = "skip" THEN acc
    ELSE IF test = TypeError.threw \/ inflow = TypeError \/ outflow = TypeError
    THEN [acc EXCEPT !.threw = TypeError.threw]
    ELSE [acc EXCEPT !.map = MapSet(@, accountName, NumSub(inflow, outflow))]

\* A round of the loop from the test of the account name on; acc is the map
\* so far, and acc.threw stops the loop.
RegisterSet(acc, accountName, test, inflow, outflow) ==
    IF test = "skip" THEN acc
    ELSE IF test = TypeError.threw \/ inflow = TypeError \/ outflow = TypeError
    THEN [acc EXCEPT !.threw = TypeError.threw]
    ELSE [acc EXCEPT !.map =
            MapSet(@, accountName,
                   \* (accountBalances.get(accountName) || 0) + netAmount
                   NumAdd(IF MapHas(acc.map, accountName)
                          THEN MapGet(acc.map, accountName) ELSE Zero,
                          NumSub(inflow, outflow)))]

\* A round of the loop, for the row.
RegisterRow(row, idx, acc) ==
    RegisterSet(acc,
                Cell(row, idx.account),
                NameTest(Cell(row, idx.account)),
                parseCurrencyValue(Cell(row, idx.inflow)),
                parseCurrencyValue(Cell(row, idx.outflow)))

\* The loop of parseRegister.
RECURSIVE RegisterLoop(_, _, _, _)
RegisterLoop(rows, idx, i, acc) ==
    IF i > Len(rows) \/ acc.threw # "" THEN acc
    ELSE RegisterLoop(rows, idx, i + 1, RegisterRow(rows[i], idx, acc))

\* Array.from(accountBalances.entries()).map(...), or what stopped the loop.
RegisterAccounts(done) ==
    IF done.threw # "" THEN Threw(done.threw)
    ELSE Returned(
           [k \in DOMAIN done.map |->
              ParsedAccount(done.map[k].key,
                            done.map[k].value,
                            UndefinedStr,
                            suggestAccountType(done.map[k].key, UndefinedStr))])

\* parseRegister from the test of the columns on.
RegisterRows(rows, idx) ==
    IF RegisterColumnsMissing(idx.account, idx.inflow, idx.outflow)
    THEN Threw(RegisterMissingColumns)
    ELSE RegisterAccounts(RegisterLoop(rows, idx, 2, [threw |-> "", map |-> << >>]))

parseRegister(rows) ==
    IF Len(rows) < 2 THEN Returned(<< >>)
    ELSE RegisterRows(rows, RegisterColumns(LowerHeaders(rows)))

\* What a call of parseYNABCSV ends with.  parseDate (the time of the call)
\* is left out of the result.
Outcome(status, error, format, accounts) ==
    [status |-> status, error |-> error, format |-> format, accounts |-> accounts]

\* parseYNABCSV once the aggregator has ended with result.
ParseResult(format, result) ==
    IF result.threw # ""
    THEN Outcome("threw", result.threw, format, << >>)
    ELSE IF Len(result.accounts) = 0
    THEN Outcome("threw", NoAccountsFound, format, << >>)
    ELSE Outcome("returned", "", format, result.accounts)

\* parseYNABCSV once the format is there.
ParseFormat(rows, format) ==
    IF format = "null"
    THEN Outcome("threw", UnrecognizedFormat, format, << >>)
    ELSE ParseResult(format, IF format = "networth"
                             THEN parseNetWorthReport(rows)
                             ELSE parseRegister(rows))

\* parseYNABCSV once the rows are there.
ParseRows(rows) ==
    IF Len(rows) = 0 THEN Outcome("threw", EmptyDocument, "null", << >>)
    ELSE ParseFormat(rows, detectYNABFormat(rows[1]))

parseYNABCSV(text) == ParseRows(parseCSV(text))

(***************************************************************************)
(* The documents parseYNABCSV is given: a header row and up to MaxDataRows *)
(* data rows, written out as CSV text.                                     *)
(***************************************************************************)
BlankRow == << << >> >>

HeaderRows ==
    { << << "M", "o", "n", "t", "h" >>, << "A", "c", "c", "o", "u", "n", "t" >>, << "A", "c", "c", "o", "u", "n", "t", " ", "T", "y", "p", "e" >>, << "B", "a", "l", "a", "n", "c", "e" >> >>,
      << << "m", "o", "n", "t", "h" >>, << "a", "c", "c", "o", "u", "n", "t" >>, << "a", "c", "c", "o", "u", "n", "t", " ", "t", "y", "p", "e" >>, << "R", "u", "n", "n", "i", "n", "g", " ", "B", "a", "l", "a", "n", "c", "e" >> >>,
      << << "m", "o", "n", "t", "h" >>, << "a", "c", "c", "o", "u", "n", "t", " ", "t", "y", "p", "e" >>, << "b", "a", "l", "a", "n", "c", "e" >> >>,
      << << "m", "o", "n", "t", "h" >>, << "a", "c", "c", "o", "u", "n", "t" >>, << "a", "c", "c", "o", "u", "n", "t", " ", "t", "y", "p", "e" >> >>,
      << << "A", "c", "c", "o", "u", "n", "t" >>, << "I", "n", "f", "l", "o", "w" >>, << "O", "u", "t", "f", "l", "o", "w" >> >>,
      << << "m", "o", "n", "t", "h" >>, << "a", "c", "c", "o", "u", "n", "t", " ", "t", "y", "p", "e" >>, << "a", "c", "c", "o", "u", "n", "t" >>, << "i", "n", "f", "l", "o", "w" >>, << "o", "u", "t", "f", "l", "o", "w" >> >>,
      BlankRow }

DataRows ==
    { << << "2" >>, << "a", "b" >>, << "A", "s", "s", "e", "t" >>, << "5" >> >>,
      << << "1" >>, << "a", "b" >>, << "L", "i", "a", "b", "i", "l", "i", "t", "y" >>, << "7" >> >>,
      << << "2" >>, << "C", "d" >>, << "a", "s", "s", "e", "t" >>, << "1", ",", "5", "0" >> >>,
      << << "2" >>, << >>, << "A", "s", "s", "e", "t" >>, << "9" >> >>,
      << << "3" >> >>,
      << << "a", "b" >>, << "5" >>, << "2" >> >>,
      << << >>, << "9" >>, << "1" >> >>,
      << << "a", "b" >>, << >>, << "1", ".", "5" >> >>,
      BlankRow }

Documents ==
    { << >> } \cup
    { << h >> \o d : h \in HeaderRows,
                     d \in UNION { [1..n -> DataRows] : n \in 0..MaxDataRows } }

\* The field and row separators of an export.
Styles == { [delimiter |-> ",", eol |-> << "\n" >>],
            [delimiter |-> ";", eol |-> << "\r", "\n" >>] }

RECURSIVE DoubleQuotes(_)
DoubleQuotes(field) ==
    IF field = << >> THEN << >>
    ELSE (IF Head(field) = "\"" THEN << "\"", "\"" >> ELSE << Head(field) >>)
           \o DoubleQuotes(Tail(field))

\* The field in double quotes, its quote characters doubled.
QuoteField(field) == << "\"" >> \o DoubleQuotes(field) \o << "\"" >>

NeedsQuotes(field) ==
    \E k \in DOMAIN field : field[k] \in { ",", ";", "\"", "\n", "\r" }

RenderField(field) == IF NeedsQuotes(field) THEN QuoteField(field) ELSE field

RECURSIVE RenderRow(_, _)
RenderRow(row, delimiter) ==
    IF row = << >> THEN << >>
    ELSE IF Len(row) = 1 THEN RenderField(row[1])
    ELSE RenderField(row[1]) \o << delimiter >> \o RenderRow(Tail(row), delimiter)

RECURSIVE Render(_, _)
Render(doc, style) ==
    IF doc = << >> THEN << >>
    ELSE IF Len(doc) = 1 THEN RenderRow(doc[1], style.delimiter)
    ELSE RenderRow(doc[1], style.delimiter) \o style.eol \o Render(Tail(doc), style)

(***************************************************************************)
(* A call of parseYNABCSV.                                                 *)
(***************************************************************************)
ParseFrame ==
    UNCHANGED << parsedAccounts, existingAccounts, defaultCurrency, mappings,
                 csvText, headers, detected, call, returned,
                 open, imported, state, past, future, maxHistory, initialState >>

ParseInit ==
    /\ csvText \in { Render(doc, style) : doc \in Documents, style \in Styles }
    /\ parseOutcome = Outcome("pending", "", "null", << >>)

CallParseYNABCSV ==
    /\ parseOutcome.status = "pending"
    /\ parseOutcome' = parseYNABCSV(csvText)
    /\ ParseFrame

ParseSpecInit == ParseInit /\ DialogIdle /\ DetectIdle /\ CallIdle /\ UndoIdle

ParseSpecNext == CallParseYNABCSV

ParseSpec == ParseSpecInit /\ [][ParseSpecNext]_vars

(***************************************************************************)
(* Properties of parseYNABCSV.                                             *)
(***************************************************************************)
ParseDone == parseOutcome.status # "pending"

\* The rows the tokenizer makes of the text.
TheRows == parseCSV(csvText)

\* The header row has a cell that is the word once lower-cased and trimmed.
HasHeader(rows, word) ==
    \E k \in DOMAIN rows[1] : Trim(ToLowerCase(rows[1][k])) = word

\* The header row has a cell containing "balance".
HasBalanceLike(rows) ==
    \E k \in DOMAIN rows[1] : Includes(Trim(ToLowerCase(rows[1][k])), << "b", "a", "l", "a", "n", "c", "e" >>)

\* The detected format's required columns are not all there.
RequiredColumnsAbsent(rows) ==
    LET format == detectYNABFormat(rows[1])
    IN  \/ /\ format = "networth"
           /\ ~(HasHeader(rows, << "a", "c", "c", "o", "u", "n", "t" >>) /\ HasBalanceLike(rows))
        \/ /\ format = "register"
           /\ ~(/\ HasHeader(rows, << "a", "c", "c", "o", "u", "n", "t" >>)
                /\ HasHeader(rows, << "i", "n", "f", "l", "o", "w" >>)
                /\ HasHeader(rows, << "o", "u", "t", "f", "l", "o", "w" >>))

MissingColumnsOf(format) ==
    IF format = "networth" THEN NetWorthMissingColumns ELSE RegisterMissingColumns

\* The aggregator of the detected format, applied to the rows.
Aggregated(rows) ==
    IF detectYNABFormat(rows[1]) = "networth"
    THEN parseNetWorthReport(rows) ELSE parseRegister(rows)

\* C7: a call of parseYNABCSV returns a result or fails with one of Empty
\* CSV file, Unrecognized format, missing columns (of either format) and No
\* accounts found, and with nothing else (no TypeError from a short row);
\* it fails with Empty CSV file exactly when the tokenizer yields no row,
\* with Unrecognized format exactly when there is a row and the first row is
\* detected as neither format, and with No accounts found when the
\* aggregator ends normally with no account.
C7_OutcomesClosed ==
    ParseDone =>
        LET rows == TheRows
            error == parseOutcome.error
        IN  /\ parseOutcome.status \in { "returned", "threw" }
            /\ (parseOutcome.status = "returned") <=> (error = "")
            /\ error \in { "", EmptyDocument, UnrecognizedFormat,
                           NetWorthMissingColumns, RegisterMissingColumns,
                           NoAccountsFound }
            /\ (error = EmptyDocument) <=> (Len(rows) = 0)
            /\ (error = UnrecognizedFormat)
                 <=> (Len(rows) >= 1 /\ detectYNABFormat(rows[1]) = "null")
            /\ ( /\ Len(rows) >= 1
                 /\ detectYNABFormat(rows[1]) # "null"
                 /\ Aggregated(rows).threw = ""
                 /\ Len(Aggregated(rows).accounts) = 0 )
                 => error = NoAccountsFound

\* A report whose data rows are shorter than its header ended with No
\* accounts found.
C7_Witness ==
    /\ ParseDone
    /\ parseOutcome.error = NoAccountsFound
    /\ Len(TheRows) >= 2
    /\ \E i \in 2..Len(TheRows) : Len(TheRows[i]) < Len(TheRows[1])

\* C8 as stated: whenever the header row is detected as a format whose
\* required columns are not all present, the call fails with that format's
\* missing-columns error, however many data rows follow, none included.
C8_MissingColumnsAnyRowCount ==
    ParseDone =>
        LET rows == TheRows
        IN  (Len(rows) >= 1 /\ RequiredColumnsAbsent(rows))
              => parseOutcome.error = MissingColumnsOf(detectYNABFormat(rows[1]))

\* C8: whenever the header row is detected as a format whose required
\* columns are not all present, the call fails with that format's
\* missing-columns error if at least one row follows the header, and with No
\* accounts found if none does; it fails with a missing-columns error in no
\* other case, and never with the register's, since a header row detected as
\* a register has all three register columns.
C8_MissingColumnsWithDataRows ==
    ParseDone =>
        LET rows == TheRows
            error == parseOutcome.error
        IN  /\ (Len(rows) >= 2 /\ RequiredColumnsAbsent(rows))
                 => error = MissingColumnsOf(detectYNABFormat(rows[1]))
            /\ (Len(rows) = 1 /\ RequiredColumnsAbsent(rows))
                 => error = NoAccountsFound
            /\ error = NetWorthMissingColumns
                 => (Len(rows) >= 2 /\ RequiredColumnsAbsent(rows))
            /\ error # RegisterMissingColumns

\* A net worth report with data rows and no account column was refused.
C8_Witness ==
    /\ ParseDone
    /\ parseOutcome.error = NetWorthMissingColumns
    /\ Len(TheRows) >= 2
    /\ ~HasHeader(TheRows, << "a", "c", "c", "o", "u", "n", "t" >>)

\* The account cell of a data row is missing, empty or blank.
BlankAccount(rows, i) ==
    LET accountIdx == IndexOf(LowerHeaders(rows), << "a", "c", "c", "o", "u", "n", "t" >>)
        accountName == Cell(rows[i], accountIdx)
    IN  accountName = UndefinedStr \/ Trim(accountName) = << >>

RECURSIVE SelectRows(_, _, _)
SelectRows(rows, keep, i) ==
    IF i > Len(rows) THEN << >>
    ELSE (IF i \in keep THEN << rows[i] >> ELSE << >>) \o SelectRows(rows, keep, i + 1)

\* The document without the data rows whose account cell is blank.
WithoutBlankAccounts(rows) ==
    SelectRows(rows, { 1 } \cup { i \in 2..Len(rows) : ~BlankAccount(rows, i) }, 1)

\* C9: whenever parseYNABCSV returns, accounts is not empty, no two accounts
\* have the same name, every name is a non-empty string without leading or
\* trailing white space, and the accounts are those of the same document
\* without its rows of blank account cell: such rows add no account and
\* change no balance.
C9_ParseResultInvariant ==
    parseOutcome.status = "returned" =>
        LET accounts == parseOutcome.accounts
            rows == TheRows
        IN  /\ Len(accounts) >= 1
            /\ \A i, j \in DOMAIN accounts :
                   accounts[i].name = accounts[j].name => i = j
            /\ \A i \in DOMAIN accounts :
                   /\ accounts[i].name # UndefinedStr
                   /\ accounts[i].name # << >>
                   /\ Trim(accounts[i].name) = accounts[i].name
            /\ accounts =
                 parseYNABCSV(Render(WithoutBlankAccounts(rows),
                                     [delimiter |-> ",", eol |-> << "\n" >>])).accounts

\* A document with a row of blank account cell and a row of an account was
\* parsed to a result.
C9_Witness ==
    /\ parseOutcome.status = "returned"
    /\ \E i \in 2..Len(TheRows) : BlankAccount(TheRows, i)
    /\ \E i \in 2..Len(TheRows) : ~BlankAccount(TheRows, i)

\* C13: every account parseYNABCSV returns for a net worth report has a
\* ynabType that is undefined, 'Asset' or 'Liability', whatever the cells of
\* the account type column hold.
C13_SourceTypeDomain ==
    (parseOutcome.status = "returned" /\ parseOutcome.format = "networth") =>
        \A k \in DOMAIN parseOutcome.accounts :
            parseOutcome.accounts[k].ynabType
              \in { UndefinedStr, << "A", "s", "s", "e", "t" >>, << "L", "i", "a", "b", "i", "l", "i", "t", "y" >> }

(***************************************************************************)
(* A call of detectYNABFormat on a header row of up to MaxHeaders cells.   *)
(***************************************************************************)
HeaderCells ==
    { << "M", "o", "n", "t", "h" >>, << " ", "A", "C", "C", "O", "U", "N", "T", " ", "T", "Y", "P", "E" >>, << "I", "n", "f", "l", "o", "w" >>, << "o", "u", "t", "f", "l", "o", "w", " " >>, << "A", "c", "c", "o", "u", "n", "t" >>,
      << "A", "c", "c", "o", "u", "n", "t", "T", "y", "p", "e" >>, << "M", "e", "m", "o" >> }

HeaderLists == UNION { [1..n -> HeaderCells] : n \in 0..MaxHeaders }

DetectFrame ==
    UNCHANGED << parsedAccounts, existingAccounts, defaultCurrency, mappings,
                 csvText, parseOutcome, headers, call, returned,
                 open, imported, state, past, future, maxHistory, initialState >>

DetectInit ==
    /\ headers \in HeaderLists
    /\ detected = "pending"

CallDetectYNABFormat ==
    /\ detected = "pending"
    /\ detected' = detectYNABFormat(headers)
    /\ DetectFrame

DetectSpecInit == DetectInit /\ DialogIdle /\ ParseIdle /\ CallIdle /\ UndoIdle

DetectSpecNext == CallDetectYNABFormat

DetectSpec == DetectSpecInit /\ [][DetectSpecNext]_vars

\* Some header is the word once lower-cased and trimmed.
HeaderPresent(word) == \E k \in DOMAIN headers : Trim(ToLowerCase(headers[k])) = word

NetWorthHeaders == HeaderPresent(<< "m", "o", "n", "t", "h" >>) /\ HeaderPresent(<< "a", "c", "c", "o", "u", "n", "t", " ", "t", "y", "p", "e" >>)

RegisterHeaders ==
    HeaderPresent(<< "i", "n", "f", "l", "o", "w" >>) /\ HeaderPresent(<< "o", "u", "t", "f", "l", "o", "w" >>) /\ HeaderPresent(<< "a", "c", "c", "o", "u", "n", "t" >>)

\* C10: comparing headers lower-cased and trimmed, detectYNABFormat returns
\* networth exactly when 'month' and 'account type' are both present,
\* otherwise register exactly when 'inflow', 'outflow' and 'account' are all
\* present, otherwise null; a header row with both sets gives networth.
C10_FormatDetection ==
    detected # "pending" =>
        /\ detected \in { "networth", "register", "null" }
        /\ (detected = "networth") <=> NetWorthHeaders
        /\ (detected = "register") <=> (~NetWorthHeaders /\ RegisterHeaders)
        /\ (detected = "null") <=> (~NetWorthHeaders /\ ~RegisterHeaders)

\* A header row with both header sets was detected as a net worth report.
C10_Witness ==
    /\ detected = "networth"
    /\ NetWorthHeaders
    /\ RegisterHeaders

(***************************************************************************)
(* Calls of the other exported functions of ynabParser, one call each:     *)
(* call holds the function's name and arguments, returned its result.      *)
(***************************************************************************)
CallFrame ==
    UNCHANGED << parsedAccounts, existingAccounts, defaultCurrency, mappings,
                 csvText, parseOutcome, headers, detected, call,
                 open, imported, state, past, future, maxHistory, initialState >>

Return(value) == [done |-> TRUE, value |-> value]

\* Rows as parseCSV makes them (cells trimmed, no row without content) for
\* parseNetWorthReport: a header row with or without a month column, and
\* data rows of several months, some with a blank account or a missing cell.
NetWorthHeaderRows ==
    { << << "M", "o", "n", "t", "h" >>, << "A", "c", "c", "o", "u", "n", "t" >>, << "A", "c", "c", "o", "u", "n", "t", " ", "T", "y", "p", "e" >>, << "B", "a", "l", "a", "n", "c", "e" >> >>,
      << << "P", "e", "r", "i", "o", "d" >>, << "A", "c", "c", "o", "u", "n", "t" >>, << "A", "c", "c", "o", "u", "n", "t", " ", "T", "y", "p", "e" >>, << "B", "a", "l", "a", "n", "c", "e" >> >> }

NetWorthDataRows ==
    { << << "9" >>, << "a", "b" >>, << "A", "s", "s", "e", "t" >>, << "5" >> >>,
      << << "1", "0" >>, << "a", "b" >>, << "L", "i", "a", "b", "i", "l", "i", "t", "y" >>, << "7" >> >>,
      << << "9" >>, << "a", "b" >>, << "L", "i", "a", "b", "i", "l", "i", "t", "y" >>, << "1", ".", "5" >> >>,
      << << "9" >>, << "A", "b" >>, << "A", "s", "s", "e", "t" >>, << "7" >> >>,
      << << "1", "0" >>, << >>, << "A", "s", "s", "e", "t" >>, << "3" >> >>,
      << << >>, << "a", "b" >>, << "A", "s", "s", "e", "t" >>, << "2" >> >>,
      << << "9" >> >> }

NetWorthReports ==
    { << h >> \o d : h \in NetWorthHeaderRows,
                     d \in UNION { [1..n -> NetWorthDataRows] : n \in 0..MaxReportRows } }

CallParseNetWorthReport ==
    /\ call.fn = "parseNetWorthReport"
    /\ ~returned.done
    /\ returned' = Return(parseNetWorthReport(call.rows))
    /\ CallFrame

\* The cell of data row i in the column of the header word; undefined when
\* the column or the cell is not there.
CellUnder(rows, i, word) == Cell(rows[i], IndexOf(LowerHeaders(rows), word))

\* Data row i has a month no data row's month is greater than; any row, when
\* there is no month column.
InGreatestMonth(rows, i) ==
    \/ ~HasHeader(rows, << "m", "o", "n", "t", "h" >>)
    \/ /\ CellUnder(rows, i, << "m", "o", "n", "t", "h" >>) # UndefinedStr
       /\ \A j \in 2..Len(rows) :
              CellUnder(rows, j, << "m", "o", "n", "t", "h" >>) # UndefinedStr
                => ~StringGreater(CellUnder(rows, j, << "m", "o", "n", "t", "h" >>),
                                  CellUnder(rows, i, << "m", "o", "n", "t", "h" >>))

\* The data rows that count for the account name.
NetWorthRowsOf(rows, name) ==
    { i \in 2..Len(rows) :
        InGreatestMonth(rows, i) /\ CellUnder(rows, i, << "a", "c", "c", "o", "u", "n", "t" >>) = name }

LastOf(indexes) == CHOOSE i \in indexes : \A j \in indexes : j <= i

\* C11: parseNetWorthReport reports an account for exactly the non-blank
\* account names of the data rows whose month is the greatest month string
\* of all data rows (of all data rows, when there is no month column), once
\* each, and its balance and type are those of the last such row of that
\* name in the document, not a sum.
C11_NetWorthLastRowOfGreatestMonth ==
    (call.fn = "parseNetWorthReport" /\ returned.done) =>
        LET rows == call.rows
            accounts == returned.value.accounts
        IN  /\ returned.value.threw = ""
            /\ \A i, j \in DOMAIN accounts :
                   accounts[i].name = accounts[j].name => i = j
            /\ \A i \in 2..Len(rows) :
                   (InGreatestMonth(rows, i) /\ ~BlankAccount(rows, i))
                     => \E k \in DOMAIN accounts :
                            accounts[k].name = CellUnder(rows, i, << "a", "c", "c", "o", "u", "n", "t" >>)
            /\ \A k \in DOMAIN accounts :
                   /\ NetWorthRowsOf(rows, accounts[k].name) # { }
                   /\ accounts[k].name # << >>
                   /\ accounts[k].balance =
                        parseCurrencyValue(
                            CellUnder(rows, LastOf(NetWorthRowsOf(rows, accounts[k].name)),
                                      << "b", "a", "l", "a", "n", "c", "e" >>))
                   /\ accounts[k].ynabType =
                        CellUnder(rows, LastOf(NetWorthRowsOf(rows, accounts[k].name)),
                                  << "a", "c", "c", "o", "u", "n", "t", " ", "t", "y", "p", "e" >>)

\* A report with a row of an earlier month and two rows of the greatest
\* month for one account, of different balances, was aggregated.
C11_Witness ==
    /\ call.fn = "parseNetWorthReport"
    /\ returned.done
    /\ HasHeader(call.rows, << "m", "o", "n", "t", "h" >>)
    /\ \E i, j, k \in 2..Len(call.rows) :
           /\ i < j
           /\ InGreatestMonth(call.rows, i) /\ InGreatestMonth(call.rows, j)
           /\ ~BlankAccount(call.rows, i)
           /\ CellUnder(call.rows, i, << "a", "c", "c", "o", "u", "n", "t" >>) = CellUnder(call.rows, j, << "a", "c", "c", "o", "u", "n", "t" >>)
           /\ CellUnder(call.rows, i, << "b", "a", "l", "a", "n", "c", "e" >>) # CellUnder(call.rows, j, << "b", "a", "l", "a", "n", "c", "e" >>)
           /\ CellUnder(call.rows, k, << "m", "o", "n", "t", "h" >>) # UndefinedStr
           /\ ~InGreatestMonth(call.rows, k)

\* A report without a month column was aggregated: every row counted.
C11_WitnessNoMonth ==
    /\ call.fn = "parseNetWorthReport"
    /\ returned.done
    /\ ~HasHeader(call.rows, << "m", "o", "n", "t", "h" >>)
    /\ Len(returned.value.accounts) = 2

\* Rows as parseCSV makes them for parseRegister: names that differ in case
\* only, an amount that is no number, a missing cell, a blank account.
RegisterDataRows ==
    { << << "a", "b" >>, << "1", "0", "0" >>, << "0" >> >>,
      << << "a", "b" >>, << "0" >>, << "4", "0" >> >>,
      << << "A", "b" >>, << "5" >>, << "2" >> >>,
      << << "a", "b" >>, << "x" >>, << "1", ".", "5" >> >>,
      << << "a", "b" >>, << "7" >> >>,
      << << >>, << "9" >>, << "1" >> >> }

RegisterReports ==
    { << << << "A", "c", "c", "o", "u", "n", "t" >>, << "I", "n", "f", "l", "o", "w" >>, << "O", "u", "t", "f", "l", "o", "w" >> >> >> \o d :
        d \in UNION { [1..n -> RegisterDataRows] : n \in 0..MaxReportRows } }

CallParseRegister ==
    /\ call.fn = "parseRegister"
    /\ ~returned.done
    /\ returned' = Return(parseRegister(call.rows))
    /\ CallFrame

\* The sum of inflow - outflow over the data rows from row i on whose account
\* cell is the name.
RECURSIVE NetInflowOf(_, _, _)
NetInflowOf(rows, name, i) ==
    IF i > Len(rows) THEN Zero
    ELSE NumAdd(IF CellUnder(rows, i, << "a", "c", "c", "o", "u", "n", "t" >>) = name
                THEN NumSub(parseCurrencyValue(CellUnder(rows, i, << "i", "n", "f", "l", "o", "w" >>)),
                            parseCurrencyValue(CellUnder(rows, i, << "o", "u", "t", "f", "l", "o", "w" >>)))
                ELSE Zero,
                NetInflowOf(rows, name, i + 1))

\* C12: parseRegister reports an account for exactly the non-blank account
\* names of the data rows, once each, names compared as they are written
\* (names differing in case are different accounts), and its balance is the
\* sum over all data rows of that name of inflow - outflow, an amount that is
\* missing or no number counting as 0.
C12_RegisterSumsAllRows ==
    (call.fn = "parseRegister" /\ returned.done) =>
        LET rows == call.rows
            accounts == returned.value.accounts
        IN  /\ returned.value.threw = ""
            /\ \A i, j \in DOMAIN accounts :
                   accounts[i].name = accounts[j].name => i = j
            /\ \A i \in 2..Len(rows) :
                   ~BlankAccount(rows, i)
                     => \E k \in DOMAIN accounts :
                            accounts[k].name = CellUnder(rows, i, << "a", "c", "c", "o", "u", "n", "t" >>)
            /\ \A k \in DOMAIN accounts :
                   /\ \E i \in 2..Len(rows) :
                          /\ ~BlankAccount(rows, i)
                          /\ CellUnder(rows, i, << "a", "c", "c", "o", "u", "n", "t" >>) = accounts[k].name
                   /\ accounts[k].balance = NetInflowOf(rows, accounts[k].name, 2)

\* A register with rows (100, 0) and (0, 40) for one account and a row for
\* the same name in another case was aggregated to 60 and a second account.
C12_Witness ==
    /\ call.fn = "parseRegister"
    /\ returned.done
    /\ \E k, l \in DOMAIN returned.value.accounts :
           /\ returned.value.accounts[k].name = << "a", "b" >>
           /\ returned.value.accounts[k].balance = Num(60, 0)
           /\ returned.value.accounts[l].name = << "A", "b" >>

\* A register with an amount that is no number and one that is missing was
\* aggregated.
C12_WitnessNoNumber ==
    /\ call.fn = "parseRegister"
    /\ returned.done
    /\ \E i, j \in 2..Len(call.rows) :
           /\ CellUnder(call.rows, i, << "i", "n", "f", "l", "o", "w" >>) = << "x" >>
           /\ CellUnder(call.rows, j, << "o", "u", "t", "f", "l", "o", "w" >>) = UndefinedStr
           /\ ~BlankAccount(call.rows, j)

\* All strings of at most n characters of the alphabet.
StringsOver(alphabet, n) == UNION { [1..k -> alphabet] : k \in 0..n }

\* Field contents wrapped in double quotes, and texts written without care
\* for quoting, for parseCSV.
FieldContents == StringsOver({ "a", ",", ";", "\"", "\n", "\r", " " }, MaxFieldLen)

RawTexts == StringsOver({ "a", ",", "\"", "\n", "\r", " " }, MaxTextLen)

\* field is the content the text was made of by quoting, when it was.
ParseCSVCalls ==
    { [fn |-> "parseCSV", text |-> QuoteField(content), field |-> content] :
        content \in FieldContents }
    \cup { [fn |-> "parseCSV", text |-> text, field |-> UndefinedStr] :
             text \in RawTexts }

CallParseCSV ==
    /\ call.fn = "parseCSV"
    /\ ~returned.done
    /\ returned' = Return(parseCSV(call.text))
    /\ CallFrame

QuotedFieldParsed ==
    call.fn = "parseCSV" /\ call.field # UndefinedStr /\ returned.done

\* C14 as stated: a field content wrapped in double quotes, its quote
\* characters doubled, is parsed to one row of one field, the content itself.
C14_RoundTripExact ==
    QuotedFieldParsed => returned.value = << << call.field >> >>

\* C14: a field content wrapped in double quotes, its quote characters
\* doubled, is parsed to one row of one field, the content without its
\* leading and trailing white space (line breaks included); when nothing is
\* left of the content, to no row at all.  Commas, semicolons, quote
\* characters and the white space inside the content come back as they are.
C14_RoundTripTrimmed ==
    QuotedFieldParsed =>
        returned.value = IF Trim(call.field) = << >> THEN << >>
                         ELSE << << Trim(call.field) >> >>

\* A content with a quote character and a delimiter or line break in it came
\* back as it was.
C14_Witness ==
    /\ QuotedFieldParsed
    /\ \E k \in DOMAIN call.field : call.field[k] = "\""
    /\ \E k \in DOMAIN call.field : call.field[k] \in { ",", ";", "\n" }
    /\ returned.value = << << call.field >> >>

\* A content with white space at an end came back without it.
C14_WitnessTrimmed ==
    /\ QuotedFieldParsed
    /\ Trim(call.field) # call.field
    /\ Trim(call.field) # << >>
    /\ returned.value = << << Trim(call.field) >> >>

\* A text without quote characters was parsed.
UnquotedTextParsed ==
    /\ call.fn = "parseCSV"
    /\ call.field = UndefinedStr
    /\ returned.done
    /\ \A k \in DOMAIN call.text : call.text[k] # "\""

\* The text with "\n" for every pair "\r\n".
RECURSIVE CrLfAsLf(_)
CrLfAsLf(text) ==
    IF text = << >> THEN << >>
    ELSE IF Len(text) >= 2 /\ text[1] = "\r" /\ text[2] = "\n"
    THEN << "\n" >> \o CrLfAsLf(SubSeq(text, 3, Len(text)))
    ELSE << text[1] >> \o CrLfAsLf(Tail(text))

\* The text with the character with for every "\r" that no "\n" follows, and
\* with nothing for it when with is empty.
RECURSIVE BareCrAs(_, _)
BareCrAs(text, with) ==
    IF text = << >> THEN << >>
    ELSE IF Len(text) >= 2 /\ text[1] = "\r" /\ text[2] = "\n"
    THEN << "\r", "\n" >> \o BareCrAs(SubSeq(text, 3, Len(text)), with)
    ELSE (IF text[1] = "\r" THEN with ELSE << text[1] >>) \o BareCrAs(Tail(text), with)

\* The number of stretches between "\n" characters that hold a character
\* other than white space and delimiters.
RECURSIVE LinesWithContent(_, _)
LinesWithContent(text, content) ==
    IF text = << >> THEN (IF content THEN 1 ELSE 0)
    ELSE IF text[1] = "\n"
    THEN (IF content THEN 1 ELSE 0) + LinesWithContent(Tail(text), FALSE)
    ELSE LinesWithContent(Tail(text),
                          content \/ text[1] \notin (WhiteSpace \cup { ",", ";" }))

\* Outside quotes "\n" and the pair "\r\n" each end one row: the rows are
\* those of the text with "\n" for each pair, one for each line with content.
C15_RowBreaks ==
    UnquotedTextParsed =>
        /\ returned.value = parseCSV(CrLfAsLf(call.text))
        /\ Len(returned.value) = LinesWithContent(CrLfAsLf(call.text), FALSE)

\* C15: outside quotes "\n" and the pair "\r\n" each end exactly one row,
\* and a "\r" that no "\n" follows ends none and is a white space character
\* of its field: the rows are those of the text with a space in its place.
C15_BareCrIsWhiteSpace ==
    UnquotedTextParsed =>
        /\ returned.value = parseCSV(CrLfAsLf(call.text))
        /\ Len(returned.value) = LinesWithContent(CrLfAsLf(call.text), FALSE)
        /\ returned.value = parseCSV(BareCrAs(call.text, << " " >>))

\* Outside quotes a "\r" that no "\n" follows is left out: the rows are those
\* of the text without it.
C15_BareCrLeftOut ==
    UnquotedTextParsed => returned.value = parseCSV(BareCrAs(call.text, << >>))

\* Amounts for parseCurrencyValue: digits with separators, amounts with a
\* sign, a currency symbol, white space or a letter, and a missing cell.
SeparatedAmounts == StringsOver({ "1", "2", ",", "." }, MaxAmountLen)

SymbolAmounts ==
    StringsOver({ "1", ",", ".", "-", "$", "<euro>", " ", "a" }, MaxSymbolsLen)

CallParseCurrencyValue ==
    /\ call.fn = "parseCurrencyValue"
    /\ ~returned.done
    /\ returned' = Return(parseCurrencyValue(call.value))
    /\ CallFrame

IsDigit(c) == c \in Digits

Occurrences(s, c) == Cardinality({ k \in DOMAIN s : s[k] = c })

\* The number whose integer digits are those before position p of s and
\* whose fraction digits are those after it.
SplitAt(s, p) ==
    Normalize(DigitsToInt(SelectSeq(SubSeq(s, 1, p - 1), IsDigit)
                            \o SelectSeq(SubSeq(s, p + 1, Len(s)), IsDigit), 0),
              Len(SelectSeq(SubSeq(s, p + 1, Len(s)), IsDigit)))

\* The digits of s as a whole number.
DigitsOf(s) == Normalize(DigitsToInt(SelectSeq(s, IsDigit), 0), 0)

\* An amount of digits and separators with both "," and "." was parsed.
BothSeparatorsParsed ==
    /\ call.fn = "parseCurrencyValue"
    /\ returned.done
    /\ call.value \in SeparatedAmounts
    /\ Occurrences(call.value, ",") >= 1
    /\ Occurrences(call.value, ".") >= 1

\* C16: for an amount with both "," and ".", the value has the digits before
\* the last separator as its integer part and the digits after it as its
\* fraction, however often either separator occurs.
C16_LastSeparatorIsDecimalPoint ==
    BothSeparatorsParsed =>
        returned.value = SplitAt(call.value,
                                 Max(LastIndexOf(call.value, ","),
                                     LastIndexOf(call.value, ".")))

\* The same, for the amounts in which the kind of the last separator occurs
\* once.
C16_OneDecimalSeparator ==
    (/\ BothSeparatorsParsed
     /\ Occurrences(call.value,
                    call.value[Max(LastIndexOf(call.value, ","),
                                   LastIndexOf(call.value, "."))]) = 1) =>
        returned.value = SplitAt(call.value,
                                 Max(LastIndexOf(call.value, ","),
                                     LastIndexOf(call.value, ".")))

\* An amount of digits and commas, with a comma and without ".", was parsed.
CommaOnlyParsed ==
    /\ call.fn = "parseCurrencyValue"
    /\ returned.done
    /\ call.value \in SeparatedAmounts
    /\ Occurrences(call.value, ",") >= 1
    /\ Occurrences(call.value, ".") = 0

\* The part of the amount after its last comma has two characters.
TwoAfterLastComma ==
    Len(call.value) - LastIndexOf(call.value, ",") = 2

\* C17: for an amount with "," and without ".", the last comma is the decimal
\* point when two characters follow it, and otherwise every comma is left
\* out; this for any number of commas.
C17_CommaOnly ==
    CommaOnlyParsed =>
        returned.value = IF TwoAfterLastComma
                           THEN SplitAt(call.value,
                                        LastIndexOf(call.value, ","))
                           ELSE DigitsOf(call.value)

\* The same, for the amounts with one comma.
C17_OneComma ==
    (CommaOnlyParsed /\ Occurrences(call.value, ",") = 1) =>
        returned.value = IF TwoAfterLastComma
                           THEN SplitAt(call.value,
                                        LastIndexOf(call.value, ","))
                           ELSE DigitsOf(call.value)

\* The same, for the amounts whose last comma is not followed by two
\* characters.
C17_ThousandsSeparators ==
    (CommaOnlyParsed /\ ~TwoAfterLastComma) =>
        returned.value = DigitsOf(call.value)

\* parseCurrencyValue has returned or raised.
AmountParsed == call.fn = "parseCurrencyValue" /\ returned.done

IsNumber(v) ==
    /\ DOMAIN v = { "mant", "frac" }
    /\ v.mant \in Int
    /\ v.frac \in Nat

\* A missing cell, the empty string, or white space only.
BlankAmount(value) ==
    \/ value = UndefinedStr
    \/ \A k \in DOMAIN value : value[k] \in WhiteSpace

IsAmountText(c) == c \notin CurrencySymbols \cup WhiteSpace \cup { ",", "." }

\* What is left of the amount without currency symbols, white space and
\* separators does not begin with a digit or with a sign and a digit.
NoLeadingNumber(value) ==
    /\ value # UndefinedStr
    /\ ~(\/ /\ Len(SelectSeq(value, IsAmountText)) >= 1
            /\ SelectSeq(value, IsAmountText)[1] \in Digits
         \/ /\ Len(SelectSeq(value, IsAmountText)) >= 2
            /\ SelectSeq(value, IsAmountText)[1] \in { "-", "+" }
            /\ SelectSeq(value, IsAmountText)[2] \in Digits)

\* C18: parseCurrencyValue returns a number for every input and never
\* raises; a missing, empty or white-space-only amount gives 0; an amount
\* whose final numeric parse fails gives 0, and so does every amount that
\* has no number at its start once symbols and separators are left out.
C18_AmountIsTotal ==
    AmountParsed =>
        /\ returned.value # TypeError
        /\ IsNumber(returned.value)
        /\ BlankAmount(call.value) => returned.value = Zero
        /\ (/\ ~BlankAmount(call.value)
            /\ parseFloat(CleanedAmount(call.value)).nan) => returned.value = Zero
        /\ NoLeadingNumber(call.value) => returned.value = Zero

\* An amount of currency symbols only was parsed.
C18_Witness ==
    /\ AmountParsed
    /\ Len(call.value) >= 1
    /\ \A k \in DOMAIN call.value : call.value[k] \in CurrencySymbols
    /\ returned.value = Zero

\* A missing cell was parsed.
C18_WitnessUndefined ==
    AmountParsed /\ call.value = UndefinedStr /\ returned.value = Zero

\* White space only was parsed.
C18_WitnessWhiteSpace ==
    AmountParsed /\ call.value = << " ", " " >> /\ returned.value = Zero

\* An amount that begins with a letter and has digits was parsed.
C18_WitnessLetter ==
    /\ AmountParsed
    /\ call.value = << "a", "1" >>
    /\ returned.value = Zero

\* Names for suggestAccountType: for each rule a name that only it matches,
\* names that several rules match, and names that none matches.
AccountNames ==
    { << "V", "i", "s", "a" >>, << "M", "o", "r", "t", "g", "a", "g", "e" >>, << "H", "o", "m", "e", " ", " ", "L", "o", "a", "n" >>, << "S", "T", "U", "D", "E", "N", "T", " ", "L", "O", "A", "N" >>, << "L", "o", "a", "n" >>,
      << "C", "a", "r", " ", "L", "o", "a", "n", " ", "I", "R", "A" >>, << "C", "r", "e", "d", "i", "t", " ", "C", "a", "r", "d", " ", "4", "0", "1", "k" >>, << "D", "e", "b", "t", " ", "F", "u", "n", "d" >>, << "C", "a", "s", "h", " ", "C", "a", "r", "d" >>,
      << "R", "o", "t", "h", " ", "I", "R", "A" >>, << "P", "a", "g", "-", "i", "b", "i", "g" >>, << "R", "e", "t", "i", "r", "e", "m", "e", "n", "t", " ", "F", "u", "n", "d" >>, << "S", "u", "p", "e", "r", " ", "H", "o", "u", "s", "e" >>,
      << "P", "e", "n", "s", "i", "o", "n", " ", "S", "a", "v", "i", "n", "g", "s" >>, << "S", "t", "o", "c", "k", " ", "P", "o", "r", "t", "f", "o", "l", "i", "o" >>, << "H", "o", "u", "s", "e", " ", "F", "u", "n", "d" >>,
      << "E", "m", "e", "r", "g", "e", "n", "c", "y", " ", "F", "u", "n", "d" >>, << "H", "o", "m", "e" >>, << "R", "e", "a", "l", " ", "E", "s", "t", "a", "t", "e" >>, << "H", "o", "m", "e", " ", "S", "a", "v", "i", "n", "g", "s" >>,
      << "C", "h", "e", "c", "k", "i", "n", "g" >>, << "C", "u", "r", "r", "e", "n", "t", " ", " ", "A", "c", "c", "o", "u", "n", "t" >>, << "M", "i", "s", "c" >>, << >> }

\* The optional type hint: 'Asset', 'Liability', left out, or another text
\* of the Account Type column.
TypeHints == { << "A", "s", "s", "e", "t" >>, << "L", "i", "a", "b", "i", "l", "i", "t", "y" >>, UndefinedStr, << "a", "s", "s", "e", "t" >> }

CallSuggestAccountType ==
    /\ call.fn = "suggestAccountType"
    /\ ~returned.done
    /\ returned' = Return(suggestAccountType(call.name, call.ynabType))
    /\ CallFrame

Suggested == call.fn = "suggestAccountType" /\ returned.done

LiabilityCue ==
    \/ call.ynabType = << "L", "i", "a", "b", "i", "l", "i", "t", "y" >>
    \/ ContainsAny(ToLowerCase(call.name), LiabilityWords)

LongTermCue == IsLongTermLiability(ToLowerCase(call.name))

RetirementCue == ContainsAny(ToLowerCase(call.name), RetirementWords)

InvestmentCue == ContainsAny(ToLowerCase(call.name), InvestmentWords)

RealEstateCue == IsRealEstate(ToLowerCase(call.name))

LiquidCue == IsLiquid(ToLowerCase(call.name))

\* C19: suggestAccountType returns the result of the first rule that
\* matches, in the order liability cue (long-term or not), retirement,
\* investment, real estate, liquid cash, fallback; it returns one of the
\* known suggestions for every name and type hint.
C19_FirstMatchingRule ==
    Suggested =>
        /\ returned.value \in [category : { "current_asset", "non_current_asset",
                                            "current_liability", "non_current_liability" },
                               accessType : { "liquid", "illiquid", "retirement" }]
        /\ (LiabilityCue /\ LongTermCue) =>
               returned.value = Suggestion("non_current_liability", "illiquid")
        /\ (LiabilityCue /\ ~LongTermCue) =>
               returned.value = Suggestion("current_liability", "liquid")
        /\ (~LiabilityCue /\ RetirementCue) =>
               returned.value = Suggestion("non_current_asset", "retirement")
        /\ (~LiabilityCue /\ ~RetirementCue /\ InvestmentCue) =>
               returned.value = Suggestion("non_current_asset", "liquid")
        /\ (~LiabilityCue /\ ~RetirementCue /\ ~InvestmentCue /\ RealEstateCue) =>
               returned.value = Suggestion("non_current_asset", "illiquid")
        /\ (~LiabilityCue /\ ~RetirementCue /\ ~InvestmentCue /\ ~RealEstateCue) =>
               returned.value = Suggestion("current_asset", "liquid")

\* A name with a liability cue and a retirement cue was classified.
C19_Witness ==
    /\ Suggested
    /\ call.ynabType = UndefinedStr
    /\ LiabilityCue /\ ~LongTermCue /\ RetirementCue
    /\ returned.value = Suggestion("current_liability", "liquid")

\* A name with the retirement and real-estate cues, without a liability cue.
C19_WitnessRetirementFirst ==
    Suggested /\ ~LiabilityCue /\ RetirementCue /\ RealEstateCue

\* A name with no cue but the investment and liquid-cash ones.
C19_WitnessInvestment ==
    /\ Suggested
    /\ ~LiabilityCue /\ ~RetirementCue /\ InvestmentCue /\ LiquidCue

\* A name with the real-estate and liquid-cash cues only.
C19_WitnessRealEstate ==
    /\ Suggested
    /\ ~LiabilityCue /\ ~RetirementCue /\ ~InvestmentCue
    /\ RealEstateCue /\ LiquidCue

\* A name with the liquid-cash cue only.
C19_WitnessLiquid ==
    /\ Suggested
    /\ ~LiabilityCue /\ ~RetirementCue /\ ~InvestmentCue /\ ~RealEstateCue
    /\ LiquidCue

\* A name with no cue.
C19_WitnessFallback ==
    /\ Suggested
    /\ ~LiabilityCue /\ ~RetirementCue /\ ~InvestmentCue /\ ~RealEstateCue
    /\ ~LiquidCue

\* A long-term liability by its name, with the hint Asset.
C19_WitnessLongTerm ==
    Suggested /\ LiabilityCue /\ LongTermCue /\ call.ynabType = << "A", "s", "s", "e", "t" >>

\* A liability by its type hint alone, with a retirement cue in its name.
C19_WitnessHintOnly ==
    /\ Suggested
    /\ call.ynabType = << "L", "i", "a", "b", "i", "l", "i", "t", "y" >>
    /\ ~ContainsAny(ToLowerCase(call.name), LiabilityWords)
    /\ RetirementCue

\* Names for stringSimilarity: both cases of a letter, another letter and
\* white space.
SimilarityNames == StringsOver({ "a", "A", "b", " " }, MaxNameLen)

CallStringSimilarity ==
    /\ call.fn = "stringSimilarity"
    /\ ~returned.done
    /\ returned' = Return(stringSimilarity(call.a, call.b))
    /\ CallFrame

Compared == call.fn = "stringSimilarity" /\ returned.done

\* C20: stringSimilarity(a, b) = stringSimilarity(b, a) for all a and b,
\* whether the two are equal, one contains the other, or neither.
C20_SimilarityIsSymmetric ==
    Compared => returned.value = stringSimilarity(call.b, call.a)

\* Two names of different lengths, neither within the other, were compared.
C20_Witness ==
    /\ Compared
    /\ Len(Trim(call.a)) < Len(Trim(call.b))
    /\ ~Includes(Trim(ToLowerCase(call.b)), Trim(ToLowerCase(call.a)))
    /\ returned.value \notin { Frac(0, 1), Frac(1, 1) }

\* A name and a longer one that contains it were compared.
C20_WitnessContained ==
    /\ Compared
    /\ Len(Trim(call.a)) >= 1
    /\ Len(Trim(call.a)) < Len(Trim(call.b))
    /\ Includes(Trim(ToLowerCase(call.b)), Trim(ToLowerCase(call.a)))

\* Two different texts of the same name were compared.
C20_WitnessEqual ==
    /\ Compared
    /\ call.a # call.b
    /\ Trim(ToLowerCase(call.a)) = Trim(ToLowerCase(call.b))
    /\ returned.value = Frac(1, 1)

\* An empty name and a name were compared.
C20_WitnessEmpty ==
    /\ Compared
    /\ Trim(call.a) = << >>
    /\ Trim(call.b) # << >>
    /\ returned.value = Frac(0, 1)

\* The name is empty after toLowerCase and trim.
EmptyName(s) == Trim(ToLowerCase(s)) = << >>

\* C21 as stated: when either name is empty after lower-casing and
\* trimming, the similarity is 0.
C21_EitherEmptyIsZero ==
    (Compared /\ (EmptyName(call.a) \/ EmptyName(call.b))) =>
        returned.value = Frac(0, 1)

\* C21: when exactly one of the names is empty after lower-casing and
\* trimming, the similarity is 0; when both are, they are identical and the
\* similarity is 1.
C21_OneEmptyIsZero ==
    Compared =>
        /\ (EmptyName(call.a) # EmptyName(call.b)) =>
               returned.value = Frac(0, 1)
        /\ (EmptyName(call.a) /\ EmptyName(call.b)) =>
               returned.value = Frac(1, 1)

\* A name of white space only was compared with a name that has letters.
C21_Witness ==
    /\ Compared
    /\ call.a # << >>
    /\ EmptyName(call.a)
    /\ ~EmptyName(call.b)
    /\ returned.value = Frac(0, 1)

\* Two different names, both empty after trimming, were compared.
C21_WitnessBothEmpty ==
    /\ Compared
    /\ call.a # call.b
    /\ EmptyName(call.a)
    /\ EmptyName(call.b)

\* C25: the hint Asset changes nothing: suggestAccountType(name, 'Asset') is
\* suggestAccountType(name) for every name, so a name with a liability cue
\* is a liability under the hint Asset; of the hints only Liability gives a
\* result other than that of the name alone.
C25_AssetHintIsInert ==
    Suggested =>
        /\ call.ynabType = << "A", "s", "s", "e", "t" >> =>
               returned.value = suggestAccountType(call.name, UndefinedStr)
        /\ (call.ynabType = << "A", "s", "s", "e", "t" >>
              /\ ContainsAny(ToLowerCase(call.name), LiabilityWords)) =>
               returned.value.category \in { "current_liability",
                                             "non_current_liability" }
        /\ returned.value # suggestAccountType(call.name, UndefinedStr) =>
               call.ynabType = << "L", "i", "a", "b", "i", "l", "i", "t", "y" >>

\* A name with a liability cue was classified under the hint Asset.
C25_Witness ==
    /\ Suggested
    /\ call.ynabType = << "A", "s", "s", "e", "t" >>
    /\ ContainsAny(ToLowerCase(call.name), LiabilityWords)
    /\ returned.value = Suggestion("current_liability", "liquid")

\* The hint Liability changed the result for a name without a liability cue.
C25_WitnessLiabilityHint ==
    /\ Suggested
    /\ call.ynabType = << "L", "i", "a", "b", "i", "l", "i", "t", "y" >>
    /\ returned.value # suggestAccountType(call.name, UndefinedStr)

\* A name with a retirement cue was classified under the hint Asset.
C25_WitnessRetirement ==
    /\ Suggested
    /\ call.ynabType = << "A", "s", "s", "e", "t" >>
    /\ returned.value = Suggestion("non_current_asset", "retirement")

CallInit ==
    /\ call \in [fn : { "parseNetWorthReport" }, rows : NetWorthReports]
                 \cup [fn : { "parseRegister" }, rows : RegisterReports]
                 \cup ParseCSVCalls
                 \cup [fn : { "parseCurrencyValue" },
                       value : SeparatedAmounts \cup SymbolAmounts \cup { UndefinedStr }]
                 \cup [fn : { "suggestAccountType" },
                       name : AccountNames, ynabType : TypeHints]
                 \cup [fn : { "stringSimilarity" },
                       a : SimilarityNames, b : SimilarityNames]
    /\ returned = NotReturned

CallSpecInit == CallInit /\ DialogIdle /\ ParseIdle /\ DetectIdle /\ UndoIdle

CallSpecNext ==
    \/ CallParseNetWorthReport
    \/ CallParseRegister
    \/ CallParseCSV
    \/ CallParseCurrencyValue
    \/ CallSuggestAccountType
    \/ CallStringSimilarity

CallSpec == CallSpecInit /\ [][CallSpecNext]_vars

(***************************************************************************)
(* YNABImportDialog while it stays mounted: the Import and Cancel buttons  *)
(* and the renders in which the parent passes new props.  useState keeps   *)
(* the mappings of the first render; useMemo recomputes initialMappings.   *)
(***************************************************************************)
ExistingNamed(name) == CHOOSE acc \in ExistingPool : acc.name = name

\* The props the parent renders the dialog with.
MountedParsed ==
    { << ParsedPool[1] >>, << ParsedPool[2] >>,
      << ParsedPool[1], ParsedPool[2] >> }

MountedExisting ==
    { << >>,
      << WithId(ExistingNamed(<< "a", "b" >>), 1) >>,
      << WithId(ExistingNamed(<< "a", "b", "d" >>), 1), WithId(ExistingNamed(<< "a", "b" >>), 2) >> }

\* What the handlers of the footer and the renders leave alone.
MountFrame ==
    UNCHANGED << csvText, parseOutcome, headers, detected, call, returned,
                 state, past, future, maxHistory, initialState >>

\* disabled={!summary.canImport}, mutated: the button is always enabled
ImportEnabled_Always(maps) == TRUE

\* disabled={!summary.canImport}
ImportEnabled(maps) == summary(maps).canImport

\* The Import button: onImport(mappings.filter((m) => m.include)) and
\* onOpenChange(false), which the parent stores in the open prop.
handleImport ==
    /\ open
    /\ ImportEnabled(mappings)
    /\ imported' = Present(SelectSeq(mappings, IsIncluded))
    /\ open' = FALSE
    /\ UNCHANGED << parsedAccounts, existingAccounts, defaultCurrency, mappings >>
    /\ MountFrame

\* The Cancel button: onOpenChange(false)
Cancel ==
    /\ open
    /\ open' = FALSE
    /\ UNCHANGED << parsedAccounts, existingAccounts, defaultCurrency, mappings,
                    imported >>
    /\ MountFrame

\* The parent renders the mounted dialog with props of its choice; the
\* mappings state is the one of the render before.
Rerender(parsed, existing, currency, shown) ==
    /\ parsedAccounts' = parsed
    /\ existingAccounts' = existing
    /\ defaultCurrency' = currency
    /\ open' = shown
    /\ imported' = Absent
    /\ UNCHANGED mappings
    /\ MountFrame

MountedInit ==
    /\ parsedAccounts \in MountedParsed
    /\ existingAccounts \in MountedExisting
    /\ defaultCurrency \in DefaultCurrencies
    /\ mappings = initialMappings(parsedAccounts, existingAccounts, defaultCurrency)
    /\ open = TRUE
    /\ imported = Absent

MountedSpecInit ==
    MountedInit /\ ParseIdle /\ DetectIdle /\ CallIdle /\ UndoIdle

\* The controls of the dialog are there while it is shown.
MountedSpecNext ==
    \/ open /\ Next
    \/ handleImport
    \/ Cancel
    \/ \E parsed \in MountedParsed, existing \in MountedExisting,
          currency \in DefaultCurrencies, shown \in BOOLEAN :
           Rerender(parsed, existing, currency, shown)

MountedSpec == MountedSpecInit /\ [][MountedSpecNext]_vars

\* C22: onImport is called only when every included mapping is import-ready
\* (and the Import button is enabled), and it receives the mappings with
\* include = true, in their order: no excluded mapping and no fuzzy mapping
\* without a selected match.
C22_ImportGate ==
    IsSet(imported) =>
        /\ summary(mappings).canImport
        /\ \A p \in DOMAIN mappings : ImportReady(mappings[p])
        /\ TheValue(imported) = SelectSeq(mappings, IsIncluded)
        /\ \A k \in DOMAIN TheValue(imported) :
              /\ TheValue(imported)[k].include
              /\ ~IsFuzzyUnconfirmed(TheValue(imported)[k])

\* onImport received one of two mappings, a fuzzy one with a selected match.
C22_Witness ==
    /\ IsSet(imported)
    /\ Len(mappings) = 2
    /\ Len(TheValue(imported)) = 1
    /\ IsFuzzyConfirmed(TheValue(imported)[1])

\* onImport received two mappings.
C22_WitnessBoth ==
    IsSet(imported) /\ Len(TheValue(imported)) = 2

\* The mapping at p is the one of the account at p of the current
\* parsedAccounts, reconciled with the current existingAccounts: the fields
\* that no handler of the dialog writes are those of initialMappings, and it
\* is exact for the same account.
TracksInputs(p) ==
    /\ p \in DOMAIN parsedAccounts
    /\ mappings[p].ynabAccount = parsedAccounts[p]
    /\ mappings[p].fuzzyMatches =
         InitialMapping(parsedAccounts[p], existingAccounts,
                        defaultCurrency).fuzzyMatches
    /\ (mappings[p].matchType = "exact") <=>
         (InitialMapping(parsedAccounts[p], existingAccounts,
                         defaultCurrency).matchType = "exact")
    /\ mappings[p].matchType = "exact" =>
         mappings[p].matchedAccount =
           InitialMapping(parsedAccounts[p], existingAccounts,
                          defaultCurrency).matchedAccount

\* C23: while the dialog is mounted, mappings has one mapping for each
\* element of the current parsedAccounts, in the same order, each computed
\* against the current existingAccounts, also after the props changed.
C23_MappingsTrackInputs ==
    /\ Len(mappings) = Len(parsedAccounts)
    /\ \A p \in DOMAIN mappings : TracksInputs(p)

\* One step of the mapping at p: its matchType stays, or goes from fuzzy to
\* new; an exact mapping keeps its matched account.
MatchTypeStep(p) ==
    /\ mappings'[p].matchType # mappings[p].matchType =>
           mappings[p].matchType = "fuzzy" /\ mappings'[p].matchType = "new"
    /\ mappings[p].matchType = "exact" =>
           mappings'[p].matchedAccount = mappings[p].matchedAccount

\* C24: over every sequence of dialog operations the only change of a
\* mapping's matchType is from fuzzy to new: an exact mapping stays exact
\* with the same matched account, and a new mapping stays new, so one that
\* went from fuzzy to new does not return to fuzzy.
C24_MatchTypeTransitions ==
    [][/\ DOMAIN mappings' = DOMAIN mappings
       /\ \A p \in DOMAIN mappings : MatchTypeStep(p)]_vars

\* A mapping that went from fuzzy to new: it is new and has candidates, and
\* it was edited after that.
C24_Witness ==
    \E p \in DOMAIN mappings :
        /\ mappings[p].matchType = "new"
        /\ IsSet(mappings[p].fuzzyMatches)
        /\ mappings[p].category \in CategoryChoices
        /\ ~mappings[p].include

\* An exact mapping that was excluded.
C24_WitnessExact ==
    \E p \in DOMAIN mappings :
        mappings[p].matchType = "exact" /\ ~mappings[p].include

(***************************************************************************)
(* useUndoRedo.  A call of setState, undo, redo or clearHistory is taken   *)
(* with all the updaters it queues, each run once, as one step.            *)
(***************************************************************************)
\* Values of the state type T: a number, NaN and null.
StateValues == { "1", "NaN", "null" }

\* JSON.stringify(value): NaN is written as null
JSONstringify(value) == IF value = "NaN" THEN "null" ELSE value

\* list.slice(start)
Slice(list, start) ==
    SubSeq(list,
           (IF start < 0 THEN Max(Len(list) + start, 0)
                         ELSE Min(start, Len(list))) + 1,
           Len(list))

\* The hook's three pieces of state.
Hook(current, prevPast, prevFuture) ==
    [state |-> current, past |-> prevPast, future |-> prevFuture]

TheHook == Hook(state, past, future)

\* newPast.length > maxHistory ? newPast.slice(-maxHistory) : newPast;
\* -maxHistory is 0 for maxHistory = 0
LimitedPast(newPast, limit) ==
    IF Len(newPast) > limit THEN Slice(newPast, -limit) ELSE newPast

\* setState(newState)
SetStateOf(h, newState, limit) ==
    IF JSONstringify(newState) # JSONstringify(h.state)
    THEN Hook(newState, LimitedPast(Append(h.past, h.state), limit), << >>)
    ELSE Hook(newState, h.past, h.future)

\* undo()
UndoOf(h) ==
    IF Len(h.past) = 0 THEN h
    ELSE Hook(h.past[Len(h.past)],
              SubSeq(h.past, 1, Len(h.past) - 1),
              << h.state >> \o h.future)

\* redo()
RedoOf(h) ==
    IF Len(h.future) = 0 THEN h
    ELSE Hook(Head(h.future), Append(h.past, h.state), Tail(h.future))

\* clearHistory()
ClearHistoryOf(h) == Hook(h.state, << >>, << >>)

\* What a call of the hook's functions leaves alone.
UndoFrame ==
    UNCHANGED << parsedAccounts, existingAccounts, defaultCurrency, mappings,
                 csvText, parseOutcome, headers, detected, call, returned,
                 open, imported, maxHistory, initialState >>

Becomes(h) ==
    /\ state' = h.state
    /\ past' = h.past
    /\ future' = h.future

\* The past grows without limit for maxHistory = 0; the model stops at
\* MaxPast entries.
setState(newState) ==
    /\ Len(past) < MaxPast
    /\ Becomes(SetStateOf(TheHook, newState, maxHistory))
    /\ UndoFrame

undo ==
    /\ Becomes(UndoOf(TheHook))
    /\ UndoFrame

redo ==
    /\ Len(past) < MaxPast
    /\ Becomes(RedoOf(TheHook))
    /\ UndoFrame

clearHistory ==
    /\ Becomes(ClearHistoryOf(TheHook))
    /\ UndoFrame

\* A render with another initialState, and the effect that follows it:
\* the state is replaced, the stacks are not touched.
SyncInitialState(newInitial) ==
    /\ newInitial # initialState
    /\ initialState' = newInitial
    /\ state' = IF JSONstringify(state) # JSONstringify(newInitial)
                  THEN newInitial ELSE state
    /\ UNCHANGED << past, future, maxHistory >>
    /\ UNCHANGED << parsedAccounts, existingAccounts, defaultCurrency, mappings,
                    csvText, parseOutcome, headers, detected, call, returned,
                    open, imported >>

UndoInit ==
    /\ initialState \in StateValues
    /\ state = initialState
    /\ past = << >>
    /\ future = << >>
    /\ maxHistory \in 0..MaxMaxHistory \cup { DefaultMaxHistory }

UndoSpecInit == UndoInit /\ DialogIdle /\ ParseIdle /\ DetectIdle /\ CallIdle

UndoSpecNext ==
    \/ \E newState \in StateValues : setState(newState)
    \/ undo
    \/ redo
    \/ clearHistory
    \/ \E newInitial \in StateValues : SyncInitialState(newInitial)

UndoSpec == UndoSpecInit /\ [][UndoSpecNext]_vars

\* C26 as stated: for every maxHistory >= 0 the past never has more than
\* maxHistory entries.
C26_PastWithinMaxHistory == Len(past) <= maxHistory

\* The same for maxHistory >= 1, and then the two stacks together have no
\* more than maxHistory entries.
C26_PastWithinPositiveMaxHistory ==
    maxHistory >= 1 => Len(past) + Len(future) <= maxHistory

\* For maxHistory >= 1 a setState at the cap discards the oldest entry.
C26_OldestDiscarded ==
    (maxHistory >= 1 /\ Len(past) = maxHistory) =>
        \A newState \in StateValues :
            JSONstringify(newState) # JSONstringify(state) =>
                SetStateOf(TheHook, newState, maxHistory).past =
                    Append(Tail(past), state)

\* undo and then redo give back the state and both stacks.
UndoRedoRoundTrip ==
    Len(past) > 0 => RedoOf(UndoOf(TheHook)) = TheHook

\* undo with an empty past and redo with an empty future change nothing.
NothingToUndoOrRedo ==
    /\ Len(past) = 0 => UndoOf(TheHook) = TheHook
    /\ Len(future) = 0 => RedoOf(TheHook) = TheHook

\* C27 as stated: undo then redo restores state, past and future; undo with
\* an empty past and redo with an empty future change nothing; setState to a
\* value different from the state empties the future, and setState to an
\* equal value changes neither stack.
C27_UndoRedo ==
    /\ UndoRedoRoundTrip
    /\ NothingToUndoOrRedo
    /\ \A newState \in StateValues :
          /\ newState # state =>
                 SetStateOf(TheHook, newState, maxHistory).future = << >>
          /\ newState = state =>
                 /\ SetStateOf(TheHook, newState, maxHistory).past = past
                 /\ SetStateOf(TheHook, newState, maxHistory).future = future

\* The same with values compared as setState compares them, by their JSON
\* text: a value with the JSON text of the state replaces the state and
\* changes neither stack, though it may be another value.
C27_UndoRedoByJSONText ==
    /\ UndoRedoRoundTrip
    /\ NothingToUndoOrRedo
    /\ \A newState \in StateValues :
          /\ JSONstringify(newState) # JSONstringify(state) =>
                 SetStateOf(TheHook, newState, maxHistory).future = << >>
          /\ JSONstringify(newState) = JSONstringify(state) =>
                 /\ SetStateOf(TheHook, newState, maxHistory).past = past
                 /\ SetStateOf(TheHook, newState, maxHistory).future = future
                 /\ SetStateOf(TheHook, newState, maxHistory).state = newState

\* The state is NaN and there is something to redo: setState(null) is a
\* setState to a different value.
C27_WitnessSameJSONText ==
    state = "NaN" /\ Len(future) > 0 /\ Len(past) > 0

====
